---- MODULE Spec2Model ----
(***************************************************************************)
(* Position risk-management core of the crypto trading bot:                *)
(*   StopLossManager    (internal/executors/stoploss_manager.go)           *)
(*   TakeProfitManager  (internal/executors/takeprofit_manager.go)         *)
(*   TrailingStopCalculator (internal/executors/trailing_stop_calculator.go)*)
(*                                                                         *)
(* Prices are decimals with two places, held as integers in units of 0.01  *)
(* (what "%.2f" prints exactly); the float64 of such a price is the double *)
(* nearest to it.  What the code computes from prices in float64, the      *)
(* targets and the stops of the take-profit ladder, is held as the double  *)
(* it is, each operation rounded to nearest.                               *)
(* Quantities are integers in units of 0.00000001, so that the shares of   *)
(* 30% and 40% the ladder takes of what is left of a position are whole    *)
(* numbers of units as long as the exchange fills orders, and "%.4f"       *)
(* rounds a quantity to a multiple of 10000 units; percentages are         *)
(* integers in units of 1%.                                                *)
(***************************************************************************)
EXTENDS Integers, Sequences, FiniteSets, TLC

(***************************************************************************)
(* Bounds of the model                                                     *)
(***************************************************************************)
MaxPrice == 1004
MaxRisk == 1
MaxHistory == 2
MaxOrders == 2
\* the ticker fires at most MaxTicks times
MaxTicks == 2
\* the exchange fills at most MaxFills partial closes
MaxFills == 3

\* callers that may be inside the managers at the same time
Threads == {1, 2}

Symbols == {"BTCUSDT"}
\* the symbols of the registry when it is looked at on its own
RegistrySymbols == {"BTCUSDT", "ETHUSDT"}
Sides == {"long", "short"}
\* prices at which the ladder is evaluated: below, between and above the
\* targets of the rungs
Prices == {1000, 1002, MaxPrice}
\* the price at which the exchange reports a market order filled
FillPrices == {1003}
\* prices of ticks and of proposed stops: from 1000 a move to 1001 is below
\* the 0.3% update threshold and a move to 1003 is a move of 0.3%
StopPrices == {1000, 1001, 1003}
\* prices of the ticks callers hand to UpdatePosition: for a long position
\* with its stop at 1000 and a short one with its stop at 1004 there is a
\* price beyond the stop, one on it and one that does not reach it
TickPrices == {999, 1000, 1002, MaxPrice, MaxPrice + 1}
\* prices the exchange reports to the monitoring loop: on the stop of a
\* long position, between the stops, and on the stop of a short position
MonitorPrices == {1000, 1002, MaxPrice}
\* long positions enter near the bottom of the price range and short ones
\* near the top, so that the rungs of both lie inside it
EntryPrices(side) == IF side = "long" THEN {1001} ELSE {1003}
\* entry prices of positions whose ladders are looked at for their values
LadderEntries == [side \in Sides |-> IF side = "long" THEN {1001, 1002}
                                     ELSE {1002, 1003}]
\* entry prices of positions whose rungs are executed one after the other.
\* At the distance 1 the targets of the long position are 10.01, 10.02 and
\* 10.03, and the prices of the evaluations reach none of them, the first
\* two and all three; the targets of the short position are the doubles just
\* below 10.03, 10.02 and 10.01, and the prices reach none of them, the first
\* one (10.02 is above the second) and all three
RungEntries == [side \in Sides |-> IF side = "long" THEN {1000} ELSE {MaxPrice}]
RiskDistances == 0..MaxRisk
\* a position of 0.1
Quantities == {10000000}
\* every price a position or a call of the model holds
AllPrices == (999 - MaxRisk)..(MaxPrice + MaxRisk + 1)

Abs(x) == IF x < 0 THEN 0 - x ELSE x

(***************************************************************************)
(* float64 arithmetic. The calculator works on Go float64 values; a price  *)
(* such as 100.3 is the nearest double, and every operation rounds to      *)
(* nearest, ties to even. Natural numbers of any size are sequences of     *)
(* limbs, least significant first, without leading zero limbs.             *)
(***************************************************************************)
Base == 2^15

RECURSIVE BigOf(_)
BigOf(n) == IF n = 0 THEN << >> ELSE <<n % Base>> \o BigOf(n \div Base)

RECURSIVE BigNorm(_)
BigNorm(a) ==
    IF a = << >> THEN a
    ELSE IF a[Len(a)] = 0 THEN BigNorm(SubSeq(a, 1, Len(a) - 1))
    ELSE a

Limb(a, i) == IF i <= Len(a) THEN a[i] ELSE 0

RECURSIVE BigCmpFrom(_, _, _)
BigCmpFrom(a, b, i) ==
    IF i = 0 THEN 0
    ELSE IF Limb(a, i) > Limb(b, i) THEN 1
    ELSE IF Limb(a, i) < Limb(b, i) THEN 0 - 1
    ELSE BigCmpFrom(a, b, i - 1)

\* -1, 0 or 1 as a < b, a = b or a > b
BigCmp(a, b) == BigCmpFrom(a, b, IF Len(a) > Len(b) THEN Len(a) ELSE Len(b))

RECURSIVE BigAddFrom(_, _, _, _)
BigAddFrom(a, b, i, carry) ==
    IF i > Len(a) /\ i > Len(b)
    THEN (IF carry = 0 THEN << >> ELSE <<carry>>)
    ELSE LET sum == Limb(a, i) + Limb(b, i) + carry
         IN <<sum % Base>> \o BigAddFrom(a, b, i + 1, sum \div Base)

BigAdd(a, b) == BigAddFrom(a, b, 1, 0)

RECURSIVE BigSubFrom(_, _, _, _)
BigSubFrom(a, b, i, borrow) ==
    IF i > Len(a) THEN << >>
    ELSE LET d == Limb(a, i) - Limb(b, i) - borrow
         IN IF d < 0 THEN <<d + Base>> \o BigSubFrom(a, b, i + 1, 1)
            ELSE <<d>> \o BigSubFrom(a, b, i + 1, 0)

\* a - b for a >= b
BigSub(a, b) == BigNorm(BigSubFrom(a, b, 1, 0))

RECURSIVE BigMulSmallFrom(_, _, _, _)
BigMulSmallFrom(a, k, i, carry) ==
    IF i > Len(a) THEN BigOf(carry)
    ELSE LET p == (a[i] * k) + carry
         IN <<p % Base>> \o BigMulSmallFrom(a, k, i + 1, p \div Base)

\* a * k for 0 <= k < Base
BigMulSmall(a, k) == IF k = 0 THEN << >> ELSE BigMulSmallFrom(a, k, 1, 0)

\* a * Base^n
BigShiftLimbs(a, n) == IF a = << >> THEN a ELSE [i \in 1..n |-> 0] \o a

RECURSIVE BigMulFrom(_, _, _)
BigMulFrom(a, b, i) ==
    IF i > Len(b) THEN << >>
    ELSE BigAdd(BigShiftLimbs(BigMulSmall(a, b[i]), i - 1), BigMulFrom(a, b, i + 1))

BigMul(a, b) == BigMulFrom(a, b, 1)

\* a * 2^k
BigShl(a, k) == BigMulSmall(BigShiftLimbs(a, k \div 15), 2^(k % 15))

RECURSIVE BigDivSmallFrom(_, _, _, _)
BigDivSmallFrom(a, k, i, r) ==
    IF i = 0 THEN [q |-> << >>, r |-> r]
    ELSE LET cur  == (r * Base) + a[i]
             rest == BigDivSmallFrom(a, k, i - 1, cur % k)
         IN [q |-> rest.q \o <<cur \div k>>, r |-> rest.r]

\* quotient and remainder of a by k, 0 < k <= Base
BigDivSmall(a, k) ==
    LET d == BigDivSmallFrom(a, k, Len(a), 0) IN [q |-> BigNorm(d.q), r |-> d.r]

\* floor(a / 2^k)
BigShr(a, k) ==
    IF Len(a) <= k \div 15 THEN << >>
    ELSE BigDivSmall(SubSeq(a, (k \div 15) + 1, Len(a)), 2^(k % 15)).q

RECURSIVE IntBitLen(_)
IntBitLen(n) == IF n = 0 THEN 0 ELSE 1 + IntBitLen(n \div 2)

BigBitLen(a) == IF a = << >> THEN 0 ELSE ((Len(a) - 1) * 15) + IntBitLen(a[Len(a)])

BigBit(a, i) == (Limb(a, (i \div 15) + 1) \div 2^(i % 15)) % 2

BigIsOdd(a) == a # << >> /\ a[1] % 2 = 1

\* one step of long division: the next bit of the dividend comes down
BigDivStep(d, st, bit) ==
    LET r2 == BigAddFrom(st.r, st.r, 1, bit)
    IN IF BigCmp(r2, d) >= 0
       THEN [q |-> BigAddFrom(st.q, st.q, 1, 1), r |-> BigSub(r2, d)]
       ELSE [q |-> BigAdd(st.q, st.q), r |-> r2]

\* long division over the bits j..0 of one limb of the dividend
RECURSIVE BigDivBits(_, _, _, _)
BigDivBits(limb, d, j, st) ==
    IF j < 0 THEN st
    ELSE CHOOSE res \in {BigDivBits(limb, d, j - 1, next) :
                            next \in {BigDivStep(d, st, (limb \div 2^j) % 2)}} : TRUE

RECURSIVE BigDivModFrom(_, _, _, _)
BigDivModFrom(a, d, i, st) ==
    IF i = 0 THEN st
    ELSE CHOOSE res \in {BigDivModFrom(a, d, i - 1, next) :
                            next \in {BigDivBits(a[i], d, 14, st)}} : TRUE

\* quotient and remainder of a by d, d > 0
BigDivMod(a, d) == BigDivModFrom(a, d, Len(a), [q |-> << >>, r |-> << >>])

\* A double is s * m * 2^e with s the sign and m of exactly 53 bits, or zero
FZero == [s |-> 1, m |-> << >>, e |-> 0]

\* s * M * 2^e (plus a little more when sticky) rounded to nearest, ties to even
FRound(s, M, e, sticky) ==
    LET L == BigBitLen(M)
    IN IF M = << >> THEN FZero
       ELSE IF L <= 53
       THEN [s |-> s, m |-> BigShl(M, 53 - L), e |-> e - (53 - L)]
       ELSE
         LET k    == L - 53
             q    == BigShr(M, k)
             r    == BigSub(M, BigShl(q, k))
             c    == BigCmp(r, BigShl(<<1>>, k - 1))
             up   == c > 0 \/ (c = 0 /\ (sticky \/ BigIsOdd(q)))
             q2   == IF up THEN BigAdd(q, <<1>>) ELSE q
         IN IF BigBitLen(q2) > 53
            THEN [s |-> s, m |-> BigShr(q2, 1), e |-> e + k + 1]
            ELSE [s |-> s, m |-> q2, e |-> e + k]

\* the double nearest to the decimal n / scale, as a literal or a parsed
\* price is converted
FOfDecimal(n, scale) ==
    IF n = 0 THEN FZero
    ELSE LET d == BigDivSmall(BigShl(BigOf(Abs(n)), 75), scale)
         IN FRound(IF n < 0 THEN 0 - 1 ELSE 1, d.q, 0 - 75, d.r # 0)

FNeg(a) == [a EXCEPT !.s = 0 - a.s]

FAbs(a) == [a EXCEPT !.s = 1]

FAdd(a, b) ==
    IF a.m = << >> THEN b
    ELSE IF b.m = << >> THEN a
    ELSE
      LET e  == IF a.e < b.e THEN a.e ELSE b.e
          A  == BigShl(a.m, a.e - e)
          B  == BigShl(b.m, b.e - e)
          c  == BigCmp(A, B)
      IN IF a.s = b.s THEN FRound(a.s, BigAdd(A, B), e, FALSE)
         ELSE IF c = 0 THEN FZero
         ELSE IF c > 0 THEN FRound(a.s, BigSub(A, B), e, FALSE)
         ELSE FRound(b.s, BigSub(B, A), e, FALSE)

FSub(a, b) == FAdd(a, FNeg(b))

FMul(a, b) ==
    IF a.m = << >> \/ b.m = << >> THEN FZero
    ELSE FRound(a.s * b.s, BigMul(a.m, b.m), a.e + b.e, FALSE)

\* a / b for b # 0
FDiv(a, b) ==
    IF a.m = << >> THEN FZero
    ELSE LET d == BigDivMod(BigShl(a.m, 60), b.m)
         IN FRound(a.s * b.s, d.q, a.e - b.e - 60, d.r # << >>)

\* -1, 0 or 1 as a < b, a = b or a > b: by the signs, then by the exponents
\* (every mantissa has 53 bits), then by the mantissas
FCmp(a, b) ==
    IF a.m = << >> THEN (IF b.m = << >> THEN 0 ELSE 0 - b.s)
    ELSE IF b.m = << >> THEN a.s
    ELSE IF a.s # b.s THEN a.s
    ELSE IF a.e # b.e THEN (IF a.e > b.e THEN a.s ELSE 0 - a.s)
    ELSE a.s * BigCmp(a.m, b.m)

\* the double a is exactly the decimal n / scale
FIsDecimal(a, n, scale) ==
    IF n = 0 THEN a.m = << >>
    ELSE /\ a.m # << >>
         /\ a.s = (IF n < 0 THEN 0 - 1 ELSE 1)
         /\ IF a.e >= 0
            THEN BigMulSmall(BigShl(a.m, a.e), scale) = BigOf(Abs(n))
            ELSE BigMulSmall(a.m, scale) = BigShl(BigOf(Abs(n)), 0 - a.e)

(***************************************************************************)
(* Order IDs: fmt.Sprintf("%d", order.OrderID) and parseInt64              *)
(***************************************************************************)
Digits == <<"0", "1", "2", "3", "4", "5", "6", "7", "8", "9">>

RECURSIVE FormatInt(_)
FormatInt(n) ==
    IF n < 10 THEN Digits[n + 1]
    ELSE FormatInt(n \div 10) \o Digits[(n % 10) + 1]

parseInt64(s) ==
    IF \E n \in 0..(MaxOrders + 2) : FormatInt(n) = s
    THEN CHOOSE n \in 0..(MaxOrders + 2) : FormatInt(n) = s
    ELSE 0

(***************************************************************************)
(* State                                                                   *)
(***************************************************************************)
VARIABLES
    positions,    \* sm.positions: map symbol -> Position
    orders,       \* stop orders resting at the exchange
    nextOrderID,  \* the ID the exchange gives to the next order it accepts
    last,         \* the last call: operation, arguments, result, exchange calls
    threads,      \* calls in progress: where each caller stands and what it holds
    calc,         \* the last call of the TrailingStopCalculator: arguments and result
    monitor,      \* the goroutine that runs MonitorPositions, its ticker and context
    held,         \* positions outside the registry that a caller or a call holds
    ladders,      \* ladders that have been replaced and that a call still ranges over
    fills         \* the number of partial closes the exchange has filled

vars == <<positions, orders, nextOrderID, last, threads, calc, monitor, held, ladders,
          fills>>

(***************************************************************************)
(* Position (type declared outside the files at hand; fields as used by    *)
(* the managers)                                                           *)
(***************************************************************************)
NewPosition(symbol, side, entryPrice, initialStopLoss, quantity) ==
    [ Symbol           |-> symbol,
      Side             |-> side,
      EntryPrice       |-> entryPrice,
      Quantity         |-> quantity,
      InitialStopLoss  |-> initialStopLoss,
      CurrentStopLoss  |-> initialStopLoss,
      HighestPrice     |-> entryPrice,
      CurrentPrice     |-> entryPrice,
      StopLossOrderID  |-> "",
      StopLossType     |-> "fixed",
      StopLossHistory  |-> << >>,
      TakeProfitConfig |-> << >> ]

\* pos.AddStopLossEvent(oldStop, newStop, reason, source)
AddStopLossEvent(pos, oldStop, newStop, source) ==
    [pos EXCEPT !.StopLossHistory =
        Append(@, [OldStop |-> oldStop, NewStop |-> newStop, Source |-> source])]

\* pos.UpdatePrice(price)
UpdatePrice(pos, price) ==
    LET improves == IF pos.Side = "long" THEN price > pos.HighestPrice
                    ELSE price < pos.HighestPrice
    IN [pos EXCEPT !.CurrentPrice = price,
                   !.HighestPrice = IF improves THEN price ELSE @]

\* pos.ShouldTriggerStopLoss()
ShouldTriggerStopLoss(pos) ==
    IF pos.Side = "long" THEN pos.CurrentPrice <= pos.CurrentStopLoss
    ELSE pos.CurrentPrice >= pos.CurrentStopLoss

(***************************************************************************)
(* The manager state a call works on, and the result it leaves             *)
(***************************************************************************)
Machine ==
    [ positions   |-> positions,
      orders      |-> orders,
      nextOrderID |-> nextOrderID,
      fills       |-> fills,
      calls       |-> << >>,
      err         |-> "",
      count       |-> 0,
      level       |-> 0 ]

ExchangeCall(call, symbol, price, quantity, orderID, ok) ==
    [ call |-> call, Symbol |-> symbol, Price |-> price,
      Quantity |-> quantity, OrderID |-> orderID, ok |-> ok ]

\* c.GetBinanceSymbolFor(symbol): strings.ReplaceAll(symbol, "/", "")
GetBinanceSymbolFor(symbol) ==
    IF symbol = "BTC/USDT" THEN "BTCUSDT"
    ELSE IF symbol = "ETH/USDT" THEN "ETHUSDT"
    ELSE symbol

(***************************************************************************)
(* TrailingStopCalculator                                                  *)
(* Multipliers are in tenths, percentages in tenths of a percent.          *)
(***************************************************************************)
TrailingStopConfig(maxStopDistance) ==
    [ InitialATRPeriod      |-> 3,
      InitialATRMultiplier  |-> 25,
      TrailingATRPeriod     |-> 3,
      TrailingATRMultiplier |-> 25,
      UpdateThreshold       |-> 3,
      MinStopDistance       |-> 5,
      MaxStopDistance       |-> maxStopDistance ]

\* getDefaultConfigs
getDefaultConfigs ==
    [ BTCUSDT |-> TrailingStopConfig(60),
      ETHUSDT |-> TrailingStopConfig(60),
      SOLUSDT |-> TrailingStopConfig(80),
      BNBUSDT |-> TrailingStopConfig(70),
      XRPUSDT |-> TrailingStopConfig(80),
      DEFAULT |-> TrailingStopConfig(50) ]

\* the letters that have an upper case, and their upper case
Lower == << "a", "b", "c", "d", "e", "f", "g", "h", "i", "j", "k", "l", "m",
            "n", "o", "p", "q", "r", "s", "t", "u", "v", "w", "x", "y", "z" >>
Upper == << "A", "B", "C", "D", "E", "F", "G", "H", "I", "J", "K", "L", "M",
            "N", "O", "P", "Q", "R", "S", "T", "U", "V", "W", "X", "Y", "Z" >>

\* strings.ReplaceAll(s, "/", "") on a symbol given character by character
ReplaceAll(s) == SelectSeq(s, LAMBDA c : c # "/")

\* strings.ToUpper
ToUpper(s) ==
    [i \in 1..Len(s) |->
       IF \E k \in 1..Len(Lower) : Lower[k] = s[i]
       THEN Upper[CHOOSE k \in 1..Len(Lower) : Lower[k] = s[i]]
       ELSE s[i]]

\* the characters as one string, the key of the configs map
RECURSIVE Join(_)
Join(s) == IF s = << >> THEN "" ELSE s[1] \o Join(Tail(s))

\* mutant: the letter case of the symbol is kept
NormalizeSymbol_KeepsCase(symbol) == Join(ReplaceAll(symbol))

\* normalizedSymbol: the slash removed, then upper case
NormalizeSymbol(symbol) == Join(ToUpper(ReplaceAll(symbol)))

\* GetConfig
GetConfig(symbol) ==
    IF NormalizeSymbol(symbol) \in DOMAIN getDefaultConfigs
    THEN getDefaultConfigs[NormalizeSymbol(symbol)]
    ELSE getDefaultConfigs["DEFAULT"]

\* a price of the model (hundredths) as the float64 the code receives
Float64(n) == FOfDecimal(n, 100)

\* the float64 of every price of the model, converted once
Float64Of == [n \in AllPrices |-> Float64(n)]

\* a configured number (tenths) as the float64 of its literal
Tenths(n) == FOfDecimal(n, 10)

\* mutant: the stop is put below the price on both sides
CalculateInitialStop_IgnoresSide(symbol, entryPrice, atr, side) ==
    LET config       == GetConfig(symbol)
        stopDistance == FMul(Tenths(config.InitialATRMultiplier), atr)
    IN FSub(entryPrice, stopDistance)

\* CalculateInitialStop
CalculateInitialStop(symbol, entryPrice, atr, side) ==
    LET config       == GetConfig(symbol)
        stopDistance == FMul(Tenths(config.InitialATRMultiplier), atr)
    IN IF side = "long" THEN FSub(entryPrice, stopDistance)
       ELSE FAdd(entryPrice, stopDistance)

\* mutant: the stop is put below the extreme price on both sides
CalculateTrailingStop_IgnoresSide(symbol, highestPrice, atr, side) ==
    LET config       == GetConfig(symbol)
        stopDistance == FMul(Tenths(config.TrailingATRMultiplier), atr)
    IN FSub(highestPrice, stopDistance)

\* CalculateTrailingStop
CalculateTrailingStop(symbol, highestPrice, atr, side) ==
    LET config       == GetConfig(symbol)
        stopDistance == FMul(Tenths(config.TrailingATRMultiplier), atr)
    IN IF side = "long" THEN FSub(highestPrice, stopDistance)
       ELSE FAdd(highestPrice, stopDistance)

\* mutant: an unchanged stop counts as a valid update
IsValidUpdate_NonStrict(side, oldStopLoss, newStopLoss) ==
    IF side = "long" THEN FCmp(newStopLoss, oldStopLoss) >= 0
    ELSE FCmp(newStopLoss, oldStopLoss) <= 0

\* mutant: the rule of a short position is applied on both sides
IsValidUpdate_ShortRule(side, oldStopLoss, newStopLoss) ==
    FCmp(newStopLoss, oldStopLoss) < 0

\* IsValidUpdate
IsValidUpdate(side, oldStopLoss, newStopLoss) ==
    IF side = "long" THEN FCmp(newStopLoss, oldStopLoss) > 0
    ELSE FCmp(newStopLoss, oldStopLoss) < 0

\* ShouldUpdate: math.Abs((new-old)/old) * 100 >= config.UpdateThreshold.
\* With old = 0 the quotient is an infinity, which is above every threshold,
\* or (0/0) a NaN, which compares false
ShouldUpdate(symbol, oldStopLoss, newStopLoss) ==
    LET config == GetConfig(symbol)
    IN IF oldStopLoss.m = << >> THEN newStopLoss.m # << >>
       ELSE LET changePercent ==
                  FMul(FAbs(FDiv(FSub(newStopLoss, oldStopLoss), oldStopLoss)),
                       FOfDecimal(100, 1))
            IN FCmp(changePercent, Tenths(config.UpdateThreshold)) >= 0

\* ValidateStopDistance.  With entryPrice = 0 the distance is an infinity or
\* a NaN, and no such value is within the range
ValidateStopDistance(symbol, entryPrice, stopPrice, side) ==
    LET config == GetConfig(symbol)
    IN IF entryPrice.m = << >> THEN FALSE
       ELSE LET distancePercent ==
                  IF side = "long"
                  THEN FMul(FDiv(FSub(entryPrice, stopPrice), entryPrice),
                            FOfDecimal(100, 1))
                  ELSE FMul(FDiv(FSub(stopPrice, entryPrice), entryPrice),
                            FOfDecimal(100, 1))
            IN /\ FCmp(distancePercent, Tenths(config.MinStopDistance)) >= 0
               /\ FCmp(distancePercent, Tenths(config.MaxStopDistance)) <= 0

\* TestTrailingStopScenario: the initial stop, the trailing stops at two
\* successive extreme prices, and the checks the test makes between them
TrailingStopScenario(symbol, entryPrice, atr, side, highestPrice1, highestPrice2) ==
    CHOOSE result \in
      { [ initialStop   |-> initialStop,
          trailingStop1 |-> trailingStop1,
          trailingStop2 |-> trailingStop2,
          firstValid    |-> IsValidUpdate(side, initialStop, trailingStop1),
          firstExceeds  |-> ShouldUpdate(symbol, initialStop, trailingStop1),
          nextValid     |-> IsValidUpdate(side, trailingStop1, trailingStop2),
          backValid     |-> IsValidUpdate(side, trailingStop2, trailingStop1) ] :
        initialStop   \in {CalculateInitialStop(symbol, entryPrice, atr, side)},
        trailingStop1 \in {CalculateTrailingStop(symbol, highestPrice1, atr, side)},
        trailingStop2 \in {CalculateTrailingStop(symbol, highestPrice2, atr, side)} } : TRUE

(***************************************************************************)
(* StopLossManager                                                         *)
(***************************************************************************)

\* RegisterPosition that stores the position as the caller handed it over
RegisterPosition_NoSeed(m, pos) ==
    [m EXCEPT !.positions =
        [s \in (DOMAIN m.positions) \cup {pos.Symbol} |->
            IF s = pos.Symbol THEN pos ELSE m.positions[s]]]

\* RegisterPosition: seeds the extreme and current price, stores under symbol
RegisterPosition(m, pos) ==
    [m EXCEPT !.positions =
        [s \in (DOMAIN m.positions) \cup {pos.Symbol} |->
            IF s = pos.Symbol
            THEN [pos EXCEPT !.HighestPrice = pos.EntryPrice,
                             !.CurrentPrice = pos.EntryPrice,
                             !.StopLossType = "fixed"]
            ELSE m.positions[s]]]

\* RemovePosition: delete(sm.positions, symbol)
RemovePosition(m, symbol) ==
    [m EXCEPT !.positions =
        [s \in (DOMAIN m.positions) \ {symbol} |-> m.positions[s]]]

\* GetPosition: sm.positions[symbol] (nil when absent, here the empty sequence)
GetPosition(m, symbol) ==
    IF symbol \in DOMAIN m.positions THEN <<m.positions[symbol]>> ELSE << >>

\* the orders in which a map with the keys S may be ranged over
Orderings(S) ==
    {o \in [1..Cardinality(S) -> S] : \A i, j \in DOMAIN o : o[i] = o[j] => i = j}

\* GetAllPositions that leaves out the last position it ranges over
GetAllPositions_DropsLast(m) ==
    {[i \in 1..(Len(o) - 1) |-> m.positions[o[i]]] :
        o \in Orderings(DOMAIN m.positions) \ {<< >>}}
      \cup {<< >>}

\* GetAllPositions: the sequences it may return, one per iteration order of
\* the map; the monitoring loop builds its list the same way
GetAllPositions(m) ==
    {[i \in 1..Len(o) |-> m.positions[o[i]]] : o \in Orderings(DOMAIN m.positions)}

\* The direction check of UpdateStopLoss
RejectsDirection(side, oldStop, newStopLoss) ==
    \/ side = "long" /\ newStopLoss < oldStop
    \/ side = "short" /\ newStopLoss > oldStop


(***************************************************************************)
(* TakeProfitManager                                                       *)
(***************************************************************************)

\* The default ladder of InitializeTakeProfitLevels: 30% at 1R, 30% at 2R, 40% at 3R
DefaultLevels ==
    << [Level |-> 1, RiskRewardRatio |-> 1, Percentage |-> 30],
       [Level |-> 2, RiskRewardRatio |-> 2, Percentage |-> 30],
       [Level |-> 3, RiskRewardRatio |-> 3, Percentage |-> 40] >>

\* Target price of one rung computed as for a long position whatever the side
TargetPriceOf_IgnoresSide(pos, ratio) ==
    LET entryPrice   == Float64(pos.EntryPrice)
        riskDistance == FAbs(FSub(entryPrice, Float64(pos.InitialStopLoss)))
    IN FAdd(entryPrice, FMul(riskDistance, FOfDecimal(ratio, 1)))

\* Target price of one rung: riskDistance := math.Abs(pos.EntryPrice -
\* pos.InitialStopLoss) and pos.EntryPrice +/- (riskDistance *
\* level.RiskRewardRatio), in float64, the product and the sum each rounded
\* (the amd64 build has no fused multiply-add)
TargetPriceOf(pos, ratio) ==
    LET entryPrice   == Float64(pos.EntryPrice)
        riskDistance == FAbs(FSub(entryPrice, Float64(pos.InitialStopLoss)))
    IN IF pos.Side = "long"
       THEN FAdd(entryPrice, FMul(riskDistance, FOfDecimal(ratio, 1)))
       ELSE FSub(entryPrice, FMul(riskDistance, FOfDecimal(ratio, 1)))

\* Stop-loss a rung installs: breakeven for rung 1, the previous target after
NewStopLossOf(pos, level) ==
    IF level = 1 THEN Float64(pos.EntryPrice)
    ELSE TargetPriceOf(pos, DefaultLevels[level - 1].RiskRewardRatio)

\* The rungs InitializeTakeProfitLevels builds for a position
NewLevels(pos) ==
    [i \in 1..Len(DefaultLevels) |->
       [ Level           |-> DefaultLevels[i].Level,
         RiskRewardRatio |-> DefaultLevels[i].RiskRewardRatio,
         Percentage      |-> DefaultLevels[i].Percentage,
         TargetPrice     |-> TargetPriceOf(pos, DefaultLevels[i].RiskRewardRatio),
         Executed        |-> FALSE,
         ExecutedTime    |-> FALSE,
         ExecutedPrice   |-> 0,
         NewStopLoss     |-> NewStopLossOf(pos, DefaultLevels[i].Level) ]]

\* the rungs for every side, entry price and initial stop of the model,
\* computed once
LevelsTable ==
    [side \in Sides, entryPrice \in AllPrices, initialStopLoss \in AllPrices |->
       NewLevels([Side |-> side, EntryPrice |-> entryPrice,
                  InitialStopLoss |-> initialStopLoss])]

\* InitializeTakeProfitLevels
InitializeTakeProfitLevels(pos) ==
    [pos EXCEPT !.TakeProfitConfig =
        << [ Enabled |-> TRUE,
             Levels  |-> LevelsTable[pos.Side, pos.EntryPrice, pos.InitialStopLoss] ] >>]

\* A target test that fires only when the price sits exactly on the target
TargetReached_Exact(side, currentPrice, targetPrice) ==
    FCmp(Float64Of[currentPrice], targetPrice) = 0

\* targetReached of MonitorAndExecute: currentPrice >= level.TargetPrice for
\* a long position and currentPrice <= level.TargetPrice for a short one
TargetReached(side, currentPrice, targetPrice) ==
    IF side = "long" THEN FCmp(Float64Of[currentPrice], targetPrice) >= 0
    ELSE FCmp(Float64Of[currentPrice], targetPrice) <= 0

\* closeQuantity := pos.Quantity * level.Percentage
CloseQuantity(pos, level) == (pos.Quantity * level.Percentage) \div 100

\* The scan of MonitorAndExecute: the first unexecuted rung whose target the
\* price has reached, 0 when there is none
ScanLevels(pos, currentPrice) ==
    LET levels == IF pos.TakeProfitConfig = << >> \/ ~pos.TakeProfitConfig[1].Enabled
                  THEN << >> ELSE pos.TakeProfitConfig[1].Levels
        hits == {i \in DOMAIN levels :
                   /\ ~levels[i].Executed
                   /\ TargetReached(pos.Side, currentPrice, levels[i].TargetPrice)}
    IN IF hits = {} THEN 0 ELSE CHOOSE i \in hits : \A j \in hits : i <= j

\* A floor that stays at the stop of the first rung
GetMinimumStopLoss_FirstRung(pos) ==
    IF pos.TakeProfitConfig = << >> \/ ~pos.TakeProfitConfig[1].Enabled
    THEN <<FZero, FALSE>>
    ELSE IF pos.TakeProfitConfig[1].Levels[1].Executed
    THEN <<pos.TakeProfitConfig[1].Levels[1].NewStopLoss, TRUE>>
    ELSE <<FZero, FALSE>>

\* GetMinimumStopLoss: <<minStopLoss, hasFloor>>
GetMinimumStopLoss(pos) ==
    IF pos.TakeProfitConfig = << >> \/ ~pos.TakeProfitConfig[1].Enabled
    THEN <<FZero, FALSE>>
    ELSE
      LET levels == pos.TakeProfitConfig[1].Levels
          prefix == {k \in 0..Len(levels) : \A j \in 1..k : levels[j].Executed}
          n      == CHOOSE k \in prefix : \A j \in prefix : j <= k
      IN IF n = 0 THEN <<FZero, FALSE>> ELSE <<levels[n].NewStopLoss, TRUE>>

(***************************************************************************)
(* Positions outside the registry.  The managers work on *Position         *)
(* pointers: a caller that looked a position up keeps working on it after  *)
(* RemovePosition deleted the map entry or RegisterPosition replaced it,   *)
(* and PlaceInitialStopLoss and the TakeProfitManager take any position    *)
(* the caller hands over, registered or not.  pos.TakeProfitConfig is a    *)
(* pointer as well: a MonitorAndExecute that ranges over the rungs keeps   *)
(* the ladder it found after InitializeTakeProfitLevels stored a new one.  *)
(***************************************************************************)
\* one place per caller for a position that is not in the registry, and one
\* for a ladder that is no longer the ladder of its position
Slots == Threads

NoObject == << >>

\* the calculator has not been called
NoCalc == [ fn |-> "none", symbol |-> << >>, side |-> "long",
            a |-> 0, b |-> 0, c |-> 0, atr |-> 0,
            ok |-> FALSE, price |-> FZero, config |-> getDefaultConfigs["DEFAULT"],
            scenario |-> << >> ]

\* MonitorPositions as it starts: waiting in its select, the context not
\* cancelled, no tick pending
NewMonitor == [ pc |-> "select", cancelled |-> FALSE, tick |-> FALSE, ticks |-> 0,
                positions |-> << >>, i |-> 1, price |-> 0, queried |-> << >>,
                failed |-> {}, ops |-> << >> ]

\* a caller that is in no call.  pc is the statement the call is at, op the
\* method, the other fields its arguments and local variables.  obj tells
\* which position the call works on: 0 is the one registered under symbol, k
\* the one in held[k]; ladder tells which rungs a MonitorAndExecute ranges
\* over: 0 is the ladder of its position, k the one in ladders[k]
Idle == [ pc |-> "idle", op |-> "", symbol |-> "", obj |-> 0, price |-> 0,
          oldStop |-> 0, id |-> 0, quantity |-> 0, placedID |-> 0,
          level |-> 0, closeQuantity |-> 0, fill |-> 0, ladder |-> 0,
          count |-> 0, calls |-> << >>, snapshot |-> << >> ]

\* the goroutine of MonitorPositions makes its calls as the first caller
MonitorThread == CHOOSE t \in Threads : \A u \in Threads : t <= u

Registered(symbol) == symbol \in DOMAIN positions

\* sm.mu is held by a RegisterPosition that is between its statements
Locked == \E u \in Threads : threads[u].pc \in {"current", "insert"}

\* caller u is in a call that works on a position
InCall(th, u) == th[u].pc \notin {"idle", "iterating"}

\* the callers that work on the position registered under symbol
Holders(th, symbol) ==
    {u \in Threads : InCall(th, u) /\ th[u].symbol = symbol /\ th[u].obj = 0}

\* some caller works on the position in held[k]
Referenced(th, k) == \E u \in Threads : InCall(th, u) /\ th[u].obj = k

\* the positions a caller can hand to a call: the registered ones and the
\* ones it holds outside the registry, each as <<symbol, obj>>
Objects ==
    {<<s, 0>> : s \in Symbols \cap DOMAIN positions}
      \cup {<<held[k].pos.Symbol, k>> :
               k \in {j \in Slots : held[j] # NoObject /\ held[j].kept}}

Object(symbol, obj) == IF obj = 0 THEN positions[symbol] ELSE held[obj].pos

ObjectOf(t) == Object(threads[t].symbol, threads[t].obj)

\* the place for a position that leaves the registry: an empty one, or one
\* whose position no call works on (the caller lets go of that one)
SlotFor(th, h) ==
    LET empty == {k \in Slots : h[k] = NoObject /\ ~Referenced(th, k)}
        free  == {k \in Slots : ~Referenced(th, k)}
    IN IF empty # {} THEN CHOOSE k \in empty : \A j \in empty : k <= j
       ELSE CHOOSE k \in free : \A j \in free : k <= j

\* the position registered under symbol leaves the registry with the value
\* pos: the calls that work on it go on working on it; keep tells whether the
\* caller of the removal holds on to the pointer
Detach(th, h, symbol, pos, keep) ==
    LET H == Holders(th, symbol)
        canKeep == keep /\ \E k \in Slots : ~Referenced(th, k)
    IN IF H = {} /\ ~canKeep
       THEN [threads |-> th, held |-> h]
       ELSE LET k == SlotFor(th, h)
            IN [ threads |-> [u \in Threads |->
                                IF u \in H THEN [th[u] EXCEPT !.obj = k] ELSE th[u]],
                 held    |-> [h EXCEPT ![k] = [pos |-> pos, kept |-> canKeep]] ]

\* a position outside the registry that no caller holds and no call works on
\* is gone
Collect(th, h) ==
    [k \in Slots |->
        IF h[k] # NoObject /\ ~h[k].kept /\ ~Referenced(th, k) THEN NoObject
        ELSE h[k]]

\* caller u ranges over the rungs of a ladder (lines 197-248)
Climbs(th, u) == th[u].pc \in {"levels", "share", "trade", "mark"}

\* a ladder that has been replaced is gone when no call ranges over it
CollectLadders(th, l) ==
    [k \in Slots |->
        IF \E u \in Threads : Climbs(th, u) /\ th[u].ladder = k THEN l[k]
        ELSE NoObject]

\* the ladder caller t ranges over
LadderOf(t) ==
    IF threads[t].ladder = 0 THEN ObjectOf(t).TakeProfitConfig
    ELSE ladders[threads[t].ladder]

(***************************************************************************)
(* Actions.  RemovePosition and GetAllPositions hold sm.mu from start to   *)
(* end and are one step each, and so is InitializeTakeProfitLevels, which  *)
(* builds the ladder from fields that never change and stores it with one  *)
(* assignment.  RegisterPosition holds sm.mu while it writes to a position *)
(* that other callers may be working on.  PlaceInitialStopLoss,            *)
(* UpdateStopLoss, UpdatePosition and MonitorAndExecute hold no lock while *)
(* they work on the position and wait for the exchange: they are given     *)
(* statement by statement, one step for each access to the position, the   *)
(* registry or the exchange, so that the steps of other callers fall       *)
(* between any two of them.  A method of Position (UpdatePrice,            *)
(* ShouldTriggerStopLoss, AddStopLossEvent) is one step, and so are        *)
(* statements that follow each other and touch nothing another caller      *)
(* reads or writes in between.  Where a specification has a registration   *)
(* as one step only, the position registered is a new one that no other    *)
(* caller holds.                                                           *)
(***************************************************************************)
\* what a step leaves: the registry, the positions outside it, the ladders
\* replaced, the callers, the exchange, the record of the last call and the
\* monitoring loop
Leave(reg, h, l, th, m, lastRec, mon) ==
    /\ positions' = reg
    /\ held' = Collect(th, h)
    /\ ladders' = CollectLadders(th, l)
    /\ threads' = th
    /\ orders' = m.orders
    /\ nextOrderID' = m.nextOrderID
    /\ fills' = m.fills
    /\ last' = lastRec
    /\ monitor' = mon
    /\ UNCHANGED calc

\* the record of a call that has returned: its arguments, its result, the
\* requests it sent to the exchange and the rung it came to
LastOf(m, op, symbol, obj, price) ==
    [ op |-> op, symbol |-> symbol, obj |-> obj, price |-> price,
      err |-> m.err, count |-> m.count, calls |-> m.calls, level |-> m.level ]

\* the position under symbol leaves the registry in a step that ends in m
Leaves(m, op, symbol) ==
    /\ symbol \in DOMAIN positions
    /\ op = "RegisterPosition" \/ symbol \notin DOMAIN m.positions

\* a call that is one step returns; m.positions is the registry it leaves
Return(m, op, symbol, price) ==
    LET d == IF Leaves(m, op, symbol)
             THEN Detach(threads, held, symbol, positions[symbol], FALSE)
             ELSE [threads |-> threads, held |-> held]
    IN Leave(m.positions, d.held, ladders, d.threads, m,
             LastOf(m, op, symbol, 0, price), monitor)

\* the loop after the body of its range loop for positions[i], whatever
\* failed in it, that ends the scan of the tick
ScanStep_EndsOnFailure(mon, ops, failed) ==
    [mon EXCEPT !.i = @ + 1,
                !.pc = IF failed \/ mon.i + 1 > Len(mon.positions)
                       THEN "select" ELSE "scan",
                !.queried = Append(@, mon.positions[mon.i]),
                !.failed = IF failed THEN @ \cup {mon.i} ELSE @,
                !.ops = ops]

\* the loop after the body of its range loop for positions[i]: a failed price
\* query continues with the next position, a failed update is logged
ScanStep(mon, ops, failed) ==
    [mon EXCEPT !.i = @ + 1,
                !.pc = IF mon.i + 1 > Len(mon.positions) THEN "select" ELSE "scan",
                !.queried = Append(@, mon.positions[mon.i]),
                !.failed = IF failed THEN @ \cup {mon.i} ELSE @,
                !.ops = ops]

\* the loop when the call of caller t returns with err: if it is the
\* UpdatePosition of the loop, the loop goes on to the next position
AfterCall(t, err) ==
    IF t = MonitorThread /\ monitor.pc = "update"
    THEN ScanStep(monitor, << "getCurrentPrice", "UpdatePosition" >>, err # "")
    ELSE monitor

\* a call begins on the position <<symbol, obj>>: caller t holds the pointer
\* and stands at pc, whatever else it keeps is in thr
Enter(t, thr, op, symbol, obj, price, pc) ==
    /\ threads[t].pc = "idle"
    /\ threads' = [threads EXCEPT ![t] =
           [thr EXCEPT !.pc = pc, !.op = op, !.symbol = symbol, !.obj = obj,
                       !.price = price]]
    /\ UNCHANGED <<positions, held, ladders, orders, nextOrderID, fills, last, calc,
                   monitor>>

\* a call of caller t that returns from the statement it begins with, having
\* changed nothing
Answer(t, m, op, symbol, obj, price) ==
    /\ threads[t].pc = "idle"
    /\ Leave(positions, held, ladders, threads, m,
             LastOf(m, op, symbol, obj, price), monitor)

\* a step of the call of caller t that is not its last: pos is what it
\* leaves of the position it works on, m of the exchange, thr of the caller
StepOn(t, pos, m, thr) ==
    LET symbol == threads[t].symbol
        obj    == threads[t].obj
    IN Leave(IF obj = 0 THEN [positions EXCEPT ![symbol] = pos] ELSE positions,
             IF obj = 0 THEN held ELSE [held EXCEPT ![obj].pos = pos],
             ladders, [threads EXCEPT ![t] = thr], m, last, monitor)

\* the call of caller t returns: pos is what its last step leaves of the
\* position it works on, m of the exchange, with the result of the call
ReturnFrom(t, pos, m) ==
    LET symbol == threads[t].symbol
        obj    == threads[t].obj
    IN Leave(IF obj = 0 THEN [positions EXCEPT ![symbol] = pos] ELSE positions,
             IF obj = 0 THEN held ELSE [held EXCEPT ![obj].pos = pos],
             ladders, [threads EXCEPT ![t] = Idle], m,
             LastOf(m, threads[t].op, symbol, obj, threads[t].price),
             AfterCall(t, m.err))

\* the exchange and the result of the call of caller t so far
MachineOf(t) == [Machine EXCEPT !.calls = threads[t].calls,
                                !.count = threads[t].count,
                                !.level = threads[t].level]

Init ==
    /\ positions = << >>
    /\ held = [k \in Slots |-> NoObject]
    /\ ladders = [k \in Slots |-> NoObject]
    /\ orders = {}
    /\ nextOrderID = 1
    /\ fills = 0
    /\ last = [ op |-> "init", symbol |-> "", obj |-> 0, price |-> 0,
                err |-> "", count |-> 0, calls |-> << >>, level |-> 0 ]
    /\ threads = [t \in Threads |-> Idle]
    /\ calc = NoCalc
    /\ monitor = NewMonitor

(***************************************************************************)
(* The registry                                                            *)
(***************************************************************************)
\* The caller opens a position at one of the entry prices of its side, with
\* its initial stop on the protective side of the entry price at one of the
\* distances risks, and registers it; no other caller has the pointer before
\* the position is in the registry
RegisterAt(risks, entries) ==
    \E symbol \in Symbols, side \in Sides, risk \in risks,
       quantity \in Quantities :
      \E entryPrice \in entries[side] :
      \E initialStopLoss \in {IF side = "long" THEN entryPrice - risk
                                ELSE entryPrice + risk} :
        /\ ~Locked
        /\ Return(RegisterPosition(Machine,
                     NewPosition(symbol, side, entryPrice, initialStopLoss, quantity)),
                  "RegisterPosition", symbol, entryPrice)

RegisterAtRisk(risks) == RegisterAt(risks, [side \in Sides |-> EntryPrices(side)])

DoRegisterPosition == RegisterAtRisk(RiskDistances)

\* The first call of a run in which one position is opened, with its stop
\* away from the entry
DoOpenAtRisk ==
    /\ last.op = "init"
    /\ RegisterAtRisk({MaxRisk})

\* The first call of a run in which one position is opened whose rungs are
\* then executed
DoOpenForRungs ==
    /\ last.op = "init"
    /\ RegisterAt({MaxRisk}, RungEntries)

\* The first call of a run in which one position is opened, at any distance
\* of its stop from any of the entry prices
DoOpenAnywhere ==
    /\ last.op = "init"
    /\ RegisterAt(RiskDistances, LadderEntries)

DoRemovePosition ==
    \E symbol \in Symbols :
      /\ ~Locked
      /\ Return(RemovePosition(Machine, symbol), "RemovePosition", symbol, 0)

\* A caller registers, under any symbol of the registry, a position object
\* whose price fields hold whatever the caller left in them
DoRegisterAny ==
    \E symbol \in RegistrySymbols, side \in Sides, risk \in {MaxRisk},
       quantity \in Quantities, highestPrice \in {1000}, currentPrice \in {MaxPrice} :
      \E entryPrice \in EntryPrices(side) :
      \E initialStopLoss \in {IF side = "long" THEN entryPrice - risk
                                ELSE entryPrice + risk} :
        /\ ~Locked
        /\ Return(RegisterPosition(Machine,
                     [NewPosition(symbol, side, entryPrice, initialStopLoss, quantity)
                        EXCEPT !.HighestPrice = highestPrice,
                               !.CurrentPrice = currentPrice,
                               !.StopLossType = "trailing"]),
                  "RegisterPosition", symbol, entryPrice)

DoRemoveAny ==
    \E symbol \in RegistrySymbols :
      /\ ~Locked
      /\ Return(RemovePosition(Machine, symbol), "RemovePosition", symbol, 0)

\* GetAllPositions called by thread t, which keeps the sequence returned;
\* the monitoring loop takes its list of positions in the same way each tick
DoGetAllPositions(t) ==
    \E snapshot \in GetAllPositions(Machine) :
      /\ threads[t].pc = "idle"
      /\ ~Locked
      /\ threads' = [threads EXCEPT ![t] =
             [Idle EXCEPT !.pc = "iterating", !.snapshot = snapshot]]
      /\ last' = [ op |-> "GetAllPositions", symbol |-> "", obj |-> 0, price |-> 0,
                   err |-> "", count |-> Len(snapshot), calls |-> << >>,
                   level |-> 0 ]
      /\ UNCHANGED <<positions, held, ladders, orders, nextOrderID, fills, calc,
                     monitor>>

\* The caller ranges over the sequence it holds: it takes the next element,
\* and is done after the last
DoIterate(t) ==
    /\ threads[t].pc = "iterating"
    /\ threads' = [threads EXCEPT ![t] =
           IF Len(threads[t].snapshot) <= 1 THEN Idle
           ELSE [threads[t] EXCEPT !.snapshot = Tail(@)]]
    /\ UNCHANGED <<positions, held, ladders, orders, nextOrderID, fills, last, calc,
                   monitor>>

(***************************************************************************)
(* Positions the caller holds                                              *)
(***************************************************************************)
\* NewPosition: the caller makes a position on one of the sides and holds it
\* without registering
NewPositionOn(sides) ==
    \E k \in Slots, side \in sides, risk \in {MaxRisk}, quantity \in Quantities :
      \E symbol \in Symbols, entryPrice \in EntryPrices(side) :
      \E initialStopLoss \in {IF side = "long" THEN entryPrice - risk
                                ELSE entryPrice + risk} :
        /\ held[k] = NoObject
        /\ \A j \in Slots : j < k => held[j] # NoObject
        /\ held' = [held EXCEPT ![k] =
               [ pos  |-> NewPosition(symbol, side, entryPrice, initialStopLoss,
                                      quantity),
                 kept |-> TRUE ]]
        /\ last' = [ op |-> "NewPosition", symbol |-> symbol, obj |-> k,
                     price |-> entryPrice, err |-> "", count |-> 0,
                     calls |-> << >>, level |-> 0 ]
        /\ UNCHANGED <<positions, ladders, orders, nextOrderID, fills, threads, calc,
                       monitor>>

DoNewPosition == NewPositionOn(Sides)

\* sm.positions[pos.Symbol] = pos for the position in held[k], with the
\* value pos (line 50): the position registered under the symbol before, if
\* there is one, is replaced, and the calls that work on either go on; th
\* are the callers
InsertHeld(k, pos, th) ==
    LET m   == RegisterPosition_NoSeed(Machine, pos)
        on  == {u \in Threads : InCall(th, u) /\ th[u].obj = k}
        th1 == [u \in Threads |->
                  IF u \in on THEN [th[u] EXCEPT !.obj = 0 - 1] ELSE th[u]]
        d   == IF pos.Symbol \in DOMAIN positions
               THEN Detach(th1, [held EXCEPT ![k] = NoObject], pos.Symbol,
                           positions[pos.Symbol], FALSE)
               ELSE [threads |-> th1, held |-> [held EXCEPT ![k] = NoObject]]
        th2 == [u \in Threads |->
                  IF u \in on THEN [d.threads[u] EXCEPT !.obj = 0] ELSE d.threads[u]]
    IN Leave(m.positions, d.held, ladders, th2, m,
             LastOf(m, "RegisterPosition", pos.Symbol, 0, pos.EntryPrice),
             monitor)

\* RegisterPosition(pos) of caller t with a position the caller holds: the
\* lock is taken and HighestPrice set (lines 43-46)
BeginRegisterPosition(t) ==
    \E k \in Slots :
      /\ threads[t].pc = "idle"
      /\ held[k] # NoObject
      /\ ~Locked
      /\ LET pos == held[k].pos
         IN Leave(positions, [held EXCEPT ![k].pos.HighestPrice = pos.EntryPrice],
                  ladders,
                  [threads EXCEPT ![t] =
                     [Idle EXCEPT !.pc = "current", !.op = "RegisterPosition",
                                  !.symbol = pos.Symbol, !.obj = k,
                                  !.price = pos.EntryPrice]],
                  Machine, last, monitor)

\* RegisterPosition of caller t: CurrentPrice is set (line 47)
SeedCurrentPrice(t) ==
    /\ threads[t].pc = "current"
    /\ StepOn(t, [ObjectOf(t) EXCEPT !.CurrentPrice = ObjectOf(t).EntryPrice],
              Machine, [threads[t] EXCEPT !.pc = "insert"])

\* RegisterPosition of caller t: the type is set, the position is stored in
\* the map and the lock released (lines 48-53)
InsertPosition(t) ==
    /\ threads[t].pc = "insert"
    /\ InsertHeld(threads[t].obj, [ObjectOf(t) EXCEPT !.StopLossType = "fixed"],
                  [threads EXCEPT ![t] = Idle])

\* One step of a RegisterPosition of caller t
StepRegisterPosition(t) ==
    \/ BeginRegisterPosition(t)
    \/ SeedCurrentPrice(t)
    \/ InsertPosition(t)

\* RemovePosition by a caller that holds on to the position it removes
DoRemoveKeeping ==
    \E symbol \in Symbols :
      /\ Registered(symbol)
      /\ ~Locked
      /\ LET m == RemovePosition(Machine, symbol)
             d == Detach(threads, held, symbol, positions[symbol], TRUE)
         IN Leave(m.positions, d.held, ladders, d.threads, m,
                  LastOf(m, "RemovePosition", symbol, 0, 0), monitor)

(***************************************************************************)
(* The exchange                                                            *)
(***************************************************************************)
\* the exchange accepts at most MaxOrders orders and refuses the next
PlaceAnswers == IF nextOrderID <= MaxOrders THEN BOOLEAN ELSE {FALSE}

\* the exchange refuses to cancel an order that does not rest with it
CancelAnswers(id) ==
    IF \E o \in orders : o.OrderID = id THEN BOOLEAN ELSE {FALSE}

\* the exchange fills at most MaxFills partial closes and refuses the next
TradeAnswers == IF fills < MaxFills THEN BOOLEAN ELSE {FALSE}

\* fmt.Sprintf("%.4f", pos.Quantity): the quantity with four decimals, the
\* nearest one; half-way between two the digits printed depend on the binary
\* value of the float, which lies on either side
FormatQuantity(quantity) ==
    LET rest == quantity % 10000
        down == quantity - rest
    IN IF 2 * rest < 10000 THEN {down}
       ELSE IF 2 * rest > 10000 THEN {down + 10000}
       ELSE {down, down + 10000}

(***************************************************************************)
(* placeStopLossOrder, for PlaceInitialStopLoss and UpdateStopLoss.  No    *)
(* lock is taken: the quantity is read from the position for the request   *)
(* (line 177), the order is created at the exchange (line 179), and when   *)
(* the exchange has answered its ID is written to the position (line 185). *)
(***************************************************************************)
\* the quantity of the order is read from the position (line 177)
ReadQuantity(t) ==
    /\ threads[t].pc = "quantity"
    /\ StepOn(t, ObjectOf(t), Machine,
              [threads[t] EXCEPT !.pc = "create", !.quantity = ObjectOf(t).Quantity])

\* the order is created at the exchange (lines 172-183); a refusal is
\* returned as the error of the call
CreateOrder(t) ==
    \E placeOK \in PlaceAnswers, quantity \in FormatQuantity(threads[t].quantity) :
      /\ threads[t].pc = "create"
      /\ LET pos  == ObjectOf(t)
             call == ExchangeCall("place", GetBinanceSymbolFor(pos.Symbol),
                                  threads[t].price, quantity,
                                  IF placeOK THEN nextOrderID ELSE 0, placeOK)
             m    == [MachineOf(t) EXCEPT !.calls = Append(@, call)]
         IN IF ~placeOK
            THEN ReturnFrom(t, pos, [m EXCEPT !.err = "place"])
            ELSE StepOn(t, pos,
                        [m EXCEPT !.orders = @ \cup
                                     {[ OrderID   |-> nextOrderID,
                                        Symbol    |-> call.Symbol,
                                        StopPrice |-> call.Price,
                                        Quantity  |-> call.Quantity ]},
                                  !.nextOrderID = @ + 1],
                        [threads[t] EXCEPT !.pc = "write", !.quantity = 0,
                                           !.placedID = nextOrderID,
                                           !.calls = m.calls])

\* placeStopLossOrder that returns without recording the ID of its order
WriteOrderID_ForgetsID(t) ==
    /\ threads[t].pc = "write"
    /\ IF threads[t].op = "UpdateStopLoss"
       THEN StepOn(t, ObjectOf(t), Machine,
                   [threads[t] EXCEPT !.pc = "commit", !.placedID = 0])
       ELSE ReturnFrom(t, ObjectOf(t), [MachineOf(t) EXCEPT !.err = ""])

\* the ID of the order the exchange created is written to the position
\* (line 185); PlaceInitialStopLoss returns, UpdateStopLoss goes on
WriteOrderID(t) ==
    /\ threads[t].pc = "write"
    /\ LET pos == [ObjectOf(t) EXCEPT
                     !.StopLossOrderID = FormatInt(threads[t].placedID)]
       IN IF threads[t].op = "UpdateStopLoss"
          THEN StepOn(t, pos, Machine,
                      [threads[t] EXCEPT !.pc = "commit", !.placedID = 0])
          ELSE ReturnFrom(t, pos, [MachineOf(t) EXCEPT !.err = ""])

(***************************************************************************)
(* PlaceInitialStopLoss                                                    *)
(***************************************************************************)
\* PlaceInitialStopLoss(pos) of caller t: the caller hands the position
\* over, the stop of the order is pos.InitialStopLoss (line 68), a field no
\* call writes once the position is made, and the quantity of the order is
\* read from the position (line 177) before the request is sent
BeginPlaceInitialStopLoss(t) ==
    \E o \in Objects :
      Enter(t, [Idle EXCEPT !.quantity = Object(o[1], o[2]).Quantity],
            "PlaceInitialStopLoss", o[1], o[2],
            Object(o[1], o[2]).InitialStopLoss, "create")

\* One step of a PlaceInitialStopLoss of caller t
StepPlaceInitialStopLoss(t) ==
    \/ BeginPlaceInitialStopLoss(t)
    \/ CreateOrder(t)
    \/ WriteOrderID(t)

(***************************************************************************)
(* UpdateStopLoss.  The lock is held for the lookup of the position only   *)
(* (lines 83-89); the rest works on the position without it, and each      *)
(* request to the exchange takes time in which other callers run.          *)
(***************************************************************************)
\* UpdateStopLoss(symbol, newStopLoss) of caller t: the position is looked
\* up under the lock (lines 83-89); without one the call returns an error
BeginUpdateStopLoss(t) ==
    \E symbol \in Symbols, newStopLoss \in StopPrices :
      /\ ~Locked
      /\ IF ~Registered(symbol)
         THEN Answer(t, [Machine EXCEPT !.err = "notfound"],
                     "UpdateStopLoss", symbol, 0, newStopLoss)
         ELSE Enter(t, Idle, "UpdateStopLoss", symbol, 0, newStopLoss, "read")

\* UpdateStopLoss that appends the history entry before it checks the
\* direction
ReadStop_RecordsFirst(t) ==
    /\ threads[t].pc = "read"
    /\ LET pos == ObjectOf(t)
           rec == AddStopLossEvent(pos, pos.CurrentStopLoss, threads[t].price, "llm")
       IN IF RejectsDirection(pos.Side, pos.CurrentStopLoss, threads[t].price)
          THEN ReturnFrom(t, rec, [MachineOf(t) EXCEPT !.err = "direction"])
          ELSE StepOn(t, pos, Machine,
                      [threads[t] EXCEPT !.pc = "record",
                                         !.oldStop = pos.CurrentStopLoss])

\* the stop is read and the proposal checked against it (lines 91-104)
ReadStop(t) ==
    /\ threads[t].pc = "read"
    /\ LET pos == ObjectOf(t)
       IN IF RejectsDirection(pos.Side, pos.CurrentStopLoss, threads[t].price)
          THEN ReturnFrom(t, pos, [MachineOf(t) EXCEPT !.err = "direction"])
          ELSE StepOn(t, pos, Machine,
                      [threads[t] EXCEPT !.pc = "record",
                                         !.oldStop = pos.CurrentStopLoss])

\* the history entry is appended (line 108); the history is followed up to
\* MaxHistory entries
RecordEvent(t) ==
    /\ threads[t].pc = "record"
    /\ Len(ObjectOf(t).StopLossHistory) < MaxHistory
    /\ StepOn(t, AddStopLossEvent(ObjectOf(t), threads[t].oldStop,
                                  threads[t].price, "llm"),
              Machine, [threads[t] EXCEPT !.pc = "order"])

\* does the position name an order? (line 112)
CheckOrder(t) ==
    /\ threads[t].pc = "order"
    /\ StepOn(t, ObjectOf(t), Machine,
              [threads[t] EXCEPT !.pc = IF ObjectOf(t).StopLossOrderID # ""
                                        THEN "named" ELSE "quantity"])

\* cancelStopLossOrder: without an order named there is nothing to cancel
\* (lines 195-197)
CheckOrderID(t) ==
    /\ threads[t].pc = "named"
    /\ StepOn(t, ObjectOf(t), Machine,
              [threads[t] EXCEPT !.pc = IF ObjectOf(t).StopLossOrderID = ""
                                        THEN "quantity" ELSE "parse"])

\* the ID for the cancel request is read from the position (line 203)
ParseOrderID(t) ==
    /\ threads[t].pc = "parse"
    /\ StepOn(t, ObjectOf(t), Machine,
              [threads[t] EXCEPT !.pc = "cancel",
                                 !.id = parseInt64(ObjectOf(t).StopLossOrderID)])

\* UpdateStopLoss that gives up when the old order cannot be cancelled
CancelOrder_AbortsOnFailure(t) ==
    \E cancelOK \in CancelAnswers(threads[t].id) :
      /\ threads[t].pc = "cancel"
      /\ LET pos  == ObjectOf(t)
             call == ExchangeCall("cancel", GetBinanceSymbolFor(pos.Symbol), 0, 0,
                                  threads[t].id, cancelOK)
             m    == [MachineOf(t) EXCEPT !.calls = Append(@, call)]
         IN IF cancelOK
            THEN StepOn(t, pos,
                        [m EXCEPT !.orders = {o \in @ : o.OrderID # threads[t].id}],
                        [threads[t] EXCEPT !.pc = "clear", !.id = 0,
                                           !.calls = m.calls])
            ELSE ReturnFrom(t, pos, [m EXCEPT !.err = "cancel"])

\* the cancel request is sent (lines 201-208); a failure is logged and the
\* call goes on (lines 113-116)
CancelOrder(t) ==
    \E cancelOK \in CancelAnswers(threads[t].id) :
      /\ threads[t].pc = "cancel"
      /\ LET pos  == ObjectOf(t)
             call == ExchangeCall("cancel", GetBinanceSymbolFor(pos.Symbol), 0, 0,
                                  threads[t].id, cancelOK)
             m    == [MachineOf(t) EXCEPT !.calls = Append(@, call)]
         IN StepOn(t, pos,
                   IF cancelOK
                   THEN [m EXCEPT !.orders = {o \in @ : o.OrderID # threads[t].id}]
                   ELSE m,
                   [threads[t] EXCEPT !.pc = IF cancelOK THEN "clear" ELSE "quantity",
                                      !.id = 0,
                                      !.calls = m.calls])

\* the exchange has cancelled the order, the position names none (line 211)
ClearOrderID(t) ==
    /\ threads[t].pc = "clear"
    /\ StepOn(t, [ObjectOf(t) EXCEPT !.StopLossOrderID = ""], Machine,
              [threads[t] EXCEPT !.pc = "quantity"])

\* the stop is committed (line 125) and the call returns
CommitStop(t) ==
    /\ threads[t].pc = "commit"
    /\ ReturnFrom(t, [ObjectOf(t) EXCEPT !.CurrentStopLoss = threads[t].price],
                  [MachineOf(t) EXCEPT !.err = ""])

\* One step of an UpdateStopLoss of caller t
StepUpdateStopLoss(t) ==
    \/ BeginUpdateStopLoss(t)
    \/ ReadStop(t)
    \/ RecordEvent(t)
    \/ CheckOrder(t)
    \/ CheckOrderID(t)
    \/ ParseOrderID(t)
    \/ CancelOrder(t)
    \/ ClearOrderID(t)
    \/ ReadQuantity(t)
    \/ CreateOrder(t)
    \/ WriteOrderID(t)
    \/ CommitStop(t)

(***************************************************************************)
(* UpdatePosition.  The lock is held for the lookup only (lines 135-141);  *)
(* the price is recorded and the stop checked on the position without it,  *)
(* the market close is a request to the exchange, and after a successful   *)
(* close RemovePosition takes the lock again.                              *)
(***************************************************************************)
\* UpdatePosition(symbol, currentPrice) of caller t: the position is looked
\* up under the lock (lines 135-141); without one the call returns nil
BeginUpdatePosition(t) ==
    \E symbol \in Symbols, currentPrice \in TickPrices :
      /\ ~Locked
      /\ IF ~Registered(symbol)
         THEN Answer(t, [Machine EXCEPT !.err = ""],
                     "UpdatePosition", symbol, 0, currentPrice)
         ELSE Enter(t, Idle, "UpdatePosition", symbol, 0, currentPrice, "price")

\* the price is recorded on the position (line 145)
RecordPrice(t) ==
    /\ threads[t].pc = "price"
    /\ StepOn(t, UpdatePrice(ObjectOf(t), threads[t].price), Machine,
              [threads[t] EXCEPT !.pc = "check"])

\* the stop is checked against the price the position holds now (line 149)
CheckStop(t) ==
    /\ threads[t].pc = "check"
    /\ IF ShouldTriggerStopLoss(ObjectOf(t))
       THEN StepOn(t, ObjectOf(t), Machine, [threads[t] EXCEPT !.pc = "size"])
       ELSE ReturnFrom(t, ObjectOf(t), [MachineOf(t) EXCEPT !.err = ""])

\* executeStopLoss: the quantity to close is read from the position for the
\* request (line 228)
ReadSize(t) ==
    /\ threads[t].pc = "size"
    /\ StepOn(t, ObjectOf(t), Machine,
              [threads[t] EXCEPT !.pc = "close", !.quantity = ObjectOf(t).Quantity])

\* executeStopLoss: the market close is sent (line 228); a failure is
\* returned as the error of the call (lines 234-237)
SendClose(t) ==
    \E closeOK \in BOOLEAN :
      /\ threads[t].pc = "close"
      /\ LET pos  == ObjectOf(t)
             call == ExchangeCall("close", pos.Symbol, 0, threads[t].quantity,
                                  0, closeOK)
             m    == [MachineOf(t) EXCEPT !.calls = Append(@, call)]
         IN IF closeOK
            THEN StepOn(t, pos, Machine,
                        [threads[t] EXCEPT !.pc = "remove", !.quantity = 0,
                                           !.calls = m.calls])
            ELSE ReturnFrom(t, pos, [m EXCEPT !.err = "close"])

\* executeStopLoss after a successful close: RemovePosition(pos.Symbol)
\* deletes, under the lock, whatever is registered under the symbol (line
\* 233), and the call returns
RemoveClosed(t) ==
    /\ threads[t].pc = "remove"
    /\ ~Locked
    /\ LET symbol == threads[t].symbol
           m      == [RemovePosition(MachineOf(t), symbol) EXCEPT !.err = ""]
           th     == [threads EXCEPT ![t] = Idle]
           d      == IF Registered(symbol)
                     THEN Detach(th, held, symbol, positions[symbol], FALSE)
                     ELSE [threads |-> th, held |-> held]
       IN Leave(m.positions, d.held, ladders, d.threads, m,
                LastOf(m, "UpdatePosition", symbol, threads[t].obj,
                       threads[t].price),
                AfterCall(t, m.err))

\* One step of an UpdatePosition that caller t has begun
StepUpdatePosition(t) ==
    \/ RecordPrice(t)
    \/ CheckStop(t)
    \/ ReadSize(t)
    \/ SendClose(t)
    \/ RemoveClosed(t)

(***************************************************************************)
(* The take-profit ladder.  The TakeProfitManager takes the position from  *)
(* its caller and no lock.                                                 *)
(***************************************************************************)
\* InitializeTakeProfitLevels: the position gets a new ladder whenever it is
\* called (line 163); the calls of MonitorAndExecute that range over the
\* rungs of the ladder that was there before go on with those
DoInitializeTakeProfitLevels ==
    \E o \in Objects :
      LET symbol == o[1]
          obj    == o[2]
          pos    == InitializeTakeProfitLevels(Object(symbol, obj))
          m      == [Machine EXCEPT !.err = ""]
          on     == {u \in Threads : /\ Climbs(threads, u)
                                     /\ threads[u].symbol = symbol
                                     /\ threads[u].obj = obj
                                     /\ threads[u].ladder = 0}
          free   == {k \in Slots : \A u \in Threads :
                                      Climbs(threads, u) => threads[u].ladder # k}
          k      == CHOOSE j \in free : \A i \in free : j <= i
      IN Leave(IF obj = 0 THEN [positions EXCEPT ![symbol] = pos] ELSE positions,
               IF obj = 0 THEN held ELSE [held EXCEPT ![obj].pos = pos],
               IF on = {} THEN ladders
               ELSE [ladders EXCEPT ![k] = Object(symbol, obj).TakeProfitConfig],
               [u \in Threads |->
                  IF u \in on THEN [threads[u] EXCEPT !.ladder = k] ELSE threads[u]],
               m, LastOf(m, "InitializeTakeProfitLevels", symbol, obj, 0),
               monitor)

\* MonitorAndExecute(pos, currentPrice) of caller t at one of the prices:
\* without a ladder the call returns 0 (lines 189-191); with one the range
\* loop takes its rungs (line 197)
EvaluateAt(t, prices) ==
    \E o \in Objects, currentPrice \in prices :
      LET pos == Object(o[1], o[2])
      IN IF pos.TakeProfitConfig = << >> \/ ~pos.TakeProfitConfig[1].Enabled
         THEN Answer(t, [Machine EXCEPT !.err = "", !.count = 0],
                     "MonitorAndExecute", o[1], o[2], currentPrice)
         ELSE Enter(t, Idle, "MonitorAndExecute", o[1], o[2], currentPrice, "levels")

BeginMonitorAndExecute(t) == EvaluateAt(t, Prices)

\* the range loop up to the first rung that is not executed and whose target
\* the price has reached (lines 197-217); without one the call returns the
\* count of the rungs it executed (line 303).  The marks are only ever set,
\* so the rungs passed over are passed over whenever they are read
ScanLadder(t) ==
    /\ threads[t].pc = "levels"
    /\ LET pos == ObjectOf(t)
           i   == ScanLevels([pos EXCEPT !.TakeProfitConfig = LadderOf(t)],
                             threads[t].price)
       IN IF i = 0
          THEN ReturnFrom(t, pos, [MachineOf(t) EXCEPT !.err = ""])
          ELSE StepOn(t, pos, Machine,
                      [threads[t] EXCEPT !.pc = "share", !.level = i])

\* closeQuantity := pos.Quantity * level.Percentage (line 226)
ReadShare(t) ==
    /\ threads[t].pc = "share"
    /\ LET pos   == ObjectOf(t)
           level == LadderOf(t)[1].Levels[threads[t].level]
       IN StepOn(t, pos, Machine,
                 [threads[t] EXCEPT !.pc = "trade",
                                    !.closeQuantity = CloseQuantity(pos, level)])

\* MonitorAndExecute that marks the rung although the exchange refused
SendTrade_MarksOnFailure(t) ==
    \E tradeOK \in TradeAnswers :
    \E fillPrice \in IF tradeOK THEN FillPrices ELSE {0} :
      /\ threads[t].pc = "trade"
      /\ LET pos  == ObjectOf(t)
             call == ExchangeCall("trade", pos.Symbol, 0,
                                  threads[t].closeQuantity, 0, tradeOK)
             m    == [MachineOf(t) EXCEPT !.calls = Append(@, call),
                                          !.fills = IF tradeOK THEN @ + 1 ELSE @]
         IN StepOn(t, pos, m,
                   [threads[t] EXCEPT !.pc = "mark", !.fill = fillPrice,
                                      !.calls = m.calls])

\* the partial close is sent (line 235); a failure is returned as the error
\* of the call with the count so far, nothing having been marked (lines
\* 238-241)
SendTrade(t) ==
    \E tradeOK \in TradeAnswers :
    \E fillPrice \in IF tradeOK THEN FillPrices ELSE {0} :
      /\ threads[t].pc = "trade"
      /\ LET pos  == ObjectOf(t)
             call == ExchangeCall("trade", pos.Symbol, 0,
                                  threads[t].closeQuantity, 0, tradeOK)
             m    == [MachineOf(t) EXCEPT !.calls = Append(@, call)]
         IN IF tradeOK
            THEN StepOn(t, pos, [m EXCEPT !.fills = @ + 1],
                        [threads[t] EXCEPT !.pc = "mark", !.fill = fillPrice,
                                           !.calls = m.calls])
            ELSE ReturnFrom(t, pos, [m EXCEPT !.err = "trade"])

\* the rung is marked executed (lines 246-248): a rung of the ladder the
\* range loop took, which is the ladder of the position unless a new one has
\* been stored since
MarkLevel(t) ==
    /\ threads[t].pc = "mark"
    /\ LET symbol == threads[t].symbol
           obj    == threads[t].obj
           k      == threads[t].ladder
           i      == threads[t].level
           ladder == [LadderOf(t) EXCEPT ![1].Levels[i].Executed = TRUE,
                                         ![1].Levels[i].ExecutedTime = TRUE,
                                         ![1].Levels[i].ExecutedPrice = threads[t].fill]
           pos    == IF k = 0 THEN [ObjectOf(t) EXCEPT !.TakeProfitConfig = ladder]
                     ELSE ObjectOf(t)
       IN Leave(IF obj = 0 THEN [positions EXCEPT ![symbol] = pos] ELSE positions,
                IF obj = 0 THEN held ELSE [held EXCEPT ![obj].pos = pos],
                IF k = 0 THEN ladders ELSE [ladders EXCEPT ![k] = ladder],
                [threads EXCEPT ![t] = [threads[t] EXCEPT !.pc = "reduce", !.fill = 0,
                                                          !.ladder = 0]],
                Machine, last, monitor)

\* pos.Quantity -= closeQuantity (line 252): the quantity is read
ReadRemaining(t) ==
    /\ threads[t].pc = "reduce"
    /\ StepOn(t, ObjectOf(t), Machine,
              [threads[t] EXCEPT !.pc = "store", !.quantity = ObjectOf(t).Quantity])

\* MonitorAndExecute without the break after an executed rung
ReduceQuantity_NoBreak(t) ==
    /\ threads[t].pc = "store"
    /\ StepOn(t, [ObjectOf(t) EXCEPT
                    !.Quantity = threads[t].quantity - threads[t].closeQuantity],
              Machine,
              [threads[t] EXCEPT !.pc = "levels", !.quantity = 0, !.closeQuantity = 0,
                                 !.count = @ + 1])

\* pos.Quantity -= closeQuantity (line 252): what is left of the quantity
\* read is stored; the rung is counted (line 254), the loop is left (line
\* 300) and the call returns the count (line 303)
ReduceQuantity(t) ==
    /\ threads[t].pc = "store"
    /\ ReturnFrom(t, [ObjectOf(t) EXCEPT
                        !.Quantity = threads[t].quantity - threads[t].closeQuantity],
                  [MachineOf(t) EXCEPT !.err = "", !.count = @ + 1])

\* One step of a MonitorAndExecute that caller t has begun
ContinueMonitorAndExecute(t) ==
    \/ ScanLadder(t)
    \/ ReadShare(t)
    \/ SendTrade(t)
    \/ MarkLevel(t)
    \/ ReadRemaining(t)
    \/ ReduceQuantity(t)

\* One step of a MonitorAndExecute of caller t
StepMonitorAndExecute(t) ==
    \/ BeginMonitorAndExecute(t)
    \/ ContinueMonitorAndExecute(t)

(***************************************************************************)
(* MonitorPositions: the loop, its ticker and its context                  *)
(***************************************************************************)
\* the ticker fires: its channel holds one tick, a further one is dropped
DoTick ==
    /\ monitor.pc # "done"
    /\ monitor.ticks < MaxTicks
    /\ monitor' = [monitor EXCEPT !.tick = TRUE, !.ticks = @ + 1]
    /\ UNCHANGED <<positions, held, ladders, orders, nextOrderID, fills, last,
                   threads, calc>>

\* Stop: sm.cancel() closes the Done channel of the context
DoStop ==
    /\ monitor' = [monitor EXCEPT !.cancelled = TRUE]
    /\ UNCHANGED <<positions, held, ladders, orders, nextOrderID, fills, last,
                   threads, calc>>

\* the select takes the case of the cancelled context: the loop returns
DoSelectDone ==
    /\ monitor.pc = "select"
    /\ monitor.cancelled
    /\ monitor' = [monitor EXCEPT !.pc = "done"]
    /\ UNCHANGED <<positions, held, ladders, orders, nextOrderID, fills, last,
                   threads, calc>>

\* the select takes the case of the ticker (when both cases are ready it
\* takes either): the tick is received, the channel of the ticker is empty
\* again and the ticker can fire into it while the loop goes on
DoSelectTick ==
    /\ monitor.pc = "select"
    /\ monitor.tick
    /\ monitor' = [monitor EXCEPT !.tick = FALSE, !.pc = "snapshot"]
    /\ UNCHANGED <<positions, held, ladders, orders, nextOrderID, fills, last,
                   threads, calc>>

\* the loop has the read lock of the registry, which it waits for while a
\* RegisterPosition holds the lock, and copies the positions of the registry
\* into a slice
DoSnapshot ==
    \E snapshot \in GetAllPositions(Machine) :
      /\ monitor.pc = "snapshot"
      /\ ~Locked
      /\ monitor' = [monitor EXCEPT
                       !.positions = [i \in 1..Len(snapshot) |-> snapshot[i].Symbol],
                       !.i = 1,
                       !.price = 0,
                       !.queried = << >>,
                       !.failed = {},
                       !.ops = << >>,
                       !.pc = IF snapshot = << >> THEN "select" ELSE "scan"]
      /\ UNCHANGED <<positions, held, ladders, orders, nextOrderID, fills, last,
                     threads, calc>>

\* the answers to a price query: the request carries the context of the
\* loop and fails once Stop has cancelled it
PriceAnswers == IF monitor.cancelled THEN {FALSE} ELSE BOOLEAN

\* the body of the range loop for one position of the slice begins: the
\* price is queried (lines 267, 285-306); a failure is logged and the loop
\* takes the next position (lines 268-271)
DoQueryPrice ==
    \E priceOK \in PriceAnswers, currentPrice \in MonitorPrices :
      /\ monitor.pc = "scan"
      /\ LET symbol == monitor.positions[monitor.i]
         IN IF ~priceOK
            THEN Leave(positions, held, ladders, threads, Machine,
                       LastOf([Machine EXCEPT !.err = "price"], "getCurrentPrice",
                              symbol, 0, 0),
                       ScanStep(monitor, << "getCurrentPrice" >>, TRUE))
            ELSE Leave(positions, held, ladders, threads, Machine, last,
                       [monitor EXCEPT !.pc = "call", !.price = currentPrice])

\* UpdatePosition is called with the price and looks the position up under
\* the lock (lines 275, 135-141): without one it returns nil; with one the
\* call goes on statement by statement as the call of the loop's goroutine
DoMonitorLookup ==
    /\ monitor.pc = "call"
    /\ threads[MonitorThread].pc = "idle"
    /\ ~Locked
    /\ LET symbol == monitor.positions[monitor.i]
       IN IF ~Registered(symbol)
          THEN Leave(positions, held, ladders, threads, Machine,
                     LastOf(Machine, "UpdatePosition", symbol, 0, monitor.price),
                     ScanStep([monitor EXCEPT !.price = 0],
                              << "getCurrentPrice", "UpdatePosition" >>, FALSE))
          ELSE Leave(positions, held, ladders,
                     [threads EXCEPT ![MonitorThread] =
                        [Idle EXCEPT !.pc = "price", !.op = "UpdatePosition",
                                     !.symbol = symbol, !.price = monitor.price]],
                     Machine, last, [monitor EXCEPT !.pc = "update", !.price = 0])

(***************************************************************************)
(* Specifications.  In each of them every caller can be at any statement   *)
(* of any call the specification has.                                      *)
(***************************************************************************)
\* Every operation by every caller
Next ==
    \/ DoRegisterPosition
    \/ DoRemovePosition
    \/ DoNewPosition
    \/ DoRemoveKeeping
    \/ DoInitializeTakeProfitLevels
    \/ \E t \in Threads : StepRegisterPosition(t)
    \/ \E t \in Threads : StepPlaceInitialStopLoss(t)
    \/ \E t \in Threads : StepUpdateStopLoss(t)
    \/ \E t \in Threads : BeginUpdatePosition(t)
    \/ \E t \in Threads : StepUpdatePosition(t)
    \/ \E t \in Threads : StepMonitorAndExecute(t)

Spec == Init /\ [][Next]_vars

\* One position from its opening on and the stop updates of its callers
NextUpdateOverlap ==
    \/ DoOpenAtRisk
    \/ \E t \in Threads : StepUpdateStopLoss(t)

SpecUpdateOverlap == Init /\ [][NextUpdateOverlap]_vars

\* One position from its opening on and the price ticks of its callers
NextTickOverlap ==
    \/ DoOpenAtRisk
    \/ \E t \in Threads : BeginUpdatePosition(t)
    \/ \E t \in Threads : StepUpdatePosition(t)

SpecTickOverlap == Init /\ [][NextTickOverlap]_vars

\* One position, the price ticks of its callers, and RemovePosition called
\* while they run
NextRemoveOverlap ==
    \/ DoOpenAtRisk
    \/ DoRemovePosition
    \/ \E t \in Threads : BeginUpdatePosition(t)
    \/ \E t \in Threads : StepUpdatePosition(t)

SpecRemoveOverlap == Init /\ [][NextRemoveOverlap]_vars

\* One position, the ladders it is given and the evaluations of them by its
\* callers
NextTakeProfit ==
    \/ DoOpenForRungs
    \/ DoInitializeTakeProfitLevels
    \/ \E t \in Threads : StepMonitorAndExecute(t)

SpecTakeProfit == Init /\ [][NextTakeProfit]_vars

\* One position, its stop orders and its ladders, and the evaluations of the
\* ladders at the price that reaches the first rung
NextProtected ==
    \/ DoOpenAtRisk
    \/ DoInitializeTakeProfitLevels
    \/ \E t \in Threads : StepPlaceInitialStopLoss(t)
    \/ \E t \in Threads : EvaluateAt(t, {1002})
    \/ \E t \in Threads : ContinueMonitorAndExecute(t)

SpecProtected == Init /\ [][NextProtected]_vars

\* One position opened at any risk, the ladders it is given and their
\* evaluations at a price that reaches no rung or one that reaches all
NextLadderRuns ==
    \/ DoOpenAnywhere
    \/ DoInitializeTakeProfitLevels
    \/ \E t \in Threads : EvaluateAt(t, {1000, MaxPrice})
    \/ \E t \in Threads : ContinueMonitorAndExecute(t)

SpecLadderRuns == Init /\ [][NextLadderRuns]_vars

\* The ladders of the positions of the registry and of those a caller holds
NextLadder ==
    \/ DoRegisterPosition
    \/ DoRemovePosition
    \/ DoNewPosition
    \/ DoInitializeTakeProfitLevels

SpecLadder == Init /\ [][NextLadder]_vars

\* The registry on its own, with two symbols
NextRegistry ==
    \/ DoRegisterAny
    \/ DoRemoveAny
    \/ \E t \in Threads : DoGetAllPositions(t)
    \/ \E t \in Threads : DoIterate(t)

SpecRegistry == Init /\ [][NextRegistry]_vars

\* Positions the caller makes and holds, registered or not
NextHeld ==
    \/ DoNewPosition
    \/ DoRemoveKeeping
    \/ \E t \in Threads : StepRegisterPosition(t)
    \/ \E t \in Threads : StepPlaceInitialStopLoss(t)

SpecHeld == Init /\ [][NextHeld]_vars

\* The monitoring loop over a registry with two symbols
NextMonitor ==
    \/ DoRegisterAny
    \/ DoRemoveAny
    \/ DoTick
    \/ DoStop
    \/ DoSelectDone
    \/ DoSelectTick
    \/ DoSnapshot
    \/ DoQueryPrice
    \/ DoMonitorLookup
    \/ StepUpdatePosition(MonitorThread)

SpecMonitor == Init /\ [][NextMonitor]_vars

\* The goroutine of the loop keeps being scheduled and the exchange answers:
\* a ready select is eventually taken and the body of the range loop
\* eventually returns
SpecMonitorFair ==
    /\ Init /\ [][NextMonitor]_vars
    /\ WF_vars(DoSelectDone)
    /\ WF_vars(DoSelectTick)
    /\ WF_vars(DoSnapshot)
    /\ WF_vars(DoQueryPrice)
    /\ WF_vars(DoMonitorLookup)
    /\ WF_vars(StepUpdatePosition(MonitorThread))

(***************************************************************************)
(* The calculator: its functions applied to arguments drawn at the start   *)
(***************************************************************************)
\* symbols as callers write them, character by character
CalcSymbols ==
    { << "B", "T", "C", "/", "U", "S", "D", "T" >>,
      << "b", "t", "c", "u", "s", "d", "t" >>,
      << "B", "T", "C", "U", "S", "D", "T" >>,
      << "S", "O", "L", "U", "S", "D", "T" >>,
      << "X", "Y", "Z", "U", "S", "D", "T" >> }

\* entry prices and old stops (30.00, 100.00, 50000.00)
CalcEntries == {3000, 10000, 5000000}

\* proposed stops and extreme prices: on, inside and outside the thresholds
\* and the distance ranges of the entries
CalcStops == {2820, 2985, 3000, 10030, 4700000, 4800000, 4975000, 5015000, 5200000}

\* average true ranges (0 and 500.00)
CalcATRs == {0, 50000}

\* the extreme price the market reaches next in the scenario (53000.00)
CalcHighs == {5300000}

\* the arguments of the calls, the results cleared
CalcArgs(c) ==
    [NoCalc EXCEPT !.symbol = c.symbol, !.side = c.side,
                   !.a = c.a, !.b = c.b, !.atr = c.atr]

InitCalculator ==
    /\ positions = << >>
    /\ held = [k \in Slots |-> NoObject]
    /\ ladders = [k \in Slots |-> NoObject]
    /\ orders = {}
    /\ fills = 0
    /\ nextOrderID = 1
    /\ last = [ op |-> "init", symbol |-> "", obj |-> 0, price |-> 0,
                err |-> "", count |-> 0, calls |-> << >>, level |-> 0 ]
    /\ threads = [t \in Threads |-> Idle]
    /\ \E symbol \in CalcSymbols, side \in Sides, a \in CalcEntries,
          b \in CalcStops, atr \in CalcATRs :
         calc = [NoCalc EXCEPT !.fn = "input", !.symbol = symbol, !.side = side,
                               !.a = a, !.b = b, !.atr = atr]
    /\ monitor = NewMonitor

\* the calculator is called on the arguments drawn and returns; it keeps no
\* state between calls and holds none of the managers
ReturnCalc(c) ==
    /\ calc.fn = "input"
    /\ calc' = c
    /\ UNCHANGED <<positions, held, ladders, orders, nextOrderID, fills, last, threads,
                   monitor>>

DoGetConfig ==
    ReturnCalc([CalcArgs(calc) EXCEPT !.fn = "GetConfig",
                                      !.config = GetConfig(calc.symbol)])

DoCalculateInitialStop ==
    ReturnCalc([CalcArgs(calc) EXCEPT
                  !.fn = "CalculateInitialStop",
                  !.price = CalculateInitialStop(calc.symbol, Float64(calc.a),
                                                 Float64(calc.atr), calc.side)])

DoCalculateTrailingStop ==
    ReturnCalc([CalcArgs(calc) EXCEPT
                  !.fn = "CalculateTrailingStop",
                  !.price = CalculateTrailingStop(calc.symbol, Float64(calc.b),
                                                  Float64(calc.atr), calc.side)])

DoIsValidUpdate ==
    ReturnCalc([CalcArgs(calc) EXCEPT
                  !.fn = "IsValidUpdate",
                  !.ok = IsValidUpdate(calc.side, Float64(calc.a), Float64(calc.b))])

DoShouldUpdate ==
    ReturnCalc([CalcArgs(calc) EXCEPT
                  !.fn = "ShouldUpdate",
                  !.ok = ShouldUpdate(calc.symbol, Float64(calc.a), Float64(calc.b))])

DoValidateStopDistance ==
    ReturnCalc([CalcArgs(calc) EXCEPT
                  !.fn = "ValidateStopDistance",
                  !.ok = ValidateStopDistance(calc.symbol, Float64(calc.a),
                                              Float64(calc.b), calc.side)])

DoTrailingStopScenario ==
    \E highestPrice2 \in CalcHighs :
      ReturnCalc([CalcArgs(calc) EXCEPT
                    !.fn = "TrailingStopScenario",
                    !.c = highestPrice2,
                    !.scenario =
                       TrailingStopScenario(calc.symbol, Float64(calc.a),
                                            Float64(calc.atr), calc.side,
                                            Float64(calc.b), Float64(highestPrice2))])

NextCalculator ==
    \/ DoGetConfig
    \/ DoCalculateInitialStop
    \/ DoCalculateTrailingStop
    \/ DoIsValidUpdate
    \/ DoShouldUpdate
    \/ DoValidateStopDistance
    \/ DoTrailingStopScenario

SpecCalculator == InitCalculator /\ [][NextCalculator]_vars

(***************************************************************************)
(* Properties                                                              *)
(***************************************************************************)
CallsOf(l, kind) == {i \in DOMAIN l.calls : l.calls[i].call = kind}

\* a proposal that improves the stop of pos strictly
StrictlyFavorable(pos, newStop) ==
    IF pos.Side = "long" THEN newStop > pos.CurrentStopLoss
    ELSE newStop < pos.CurrentStopLoss

\* the stop of the position after the step is no worse than before it
NoWorse(before, after) ==
    IF before.Side = "long" THEN after.CurrentStopLoss >= before.CurrentStopLoss
    ELSE after.CurrentStopLoss <= before.CurrentStopLoss

\* the tick price breaches the stop of pos
Breaches(pos, price) ==
    IF pos.Side = "long" THEN price <= pos.CurrentStopLoss
    ELSE price >= pos.CurrentStopLoss

\* the symbols of the positions, character by character
Spelling == [ BTCUSDT |-> << "B", "T", "C", "U", "S", "D", "T" >>,
              ETHUSDT |-> << "E", "T", "H", "U", "S", "D", "T" >> ]

\* the step is a statement of the call caller t is in, or the statement with
\* which t begins a call that goes on
Steps(t) == threads'[t].pc # threads[t].pc

\* the step is a statement of a call of op by caller t, other callers being
\* anywhere in their calls
StepsIn(t, op) == Steps(t) /\ op \in {threads[t].op, threads'[t].op}

\* with the step the call of op by caller t returns
Returns(t, op) == Steps(t) /\ threads[t].op = op /\ threads'[t].pc = "idle"

\* the position caller t works on, as the step leaves it
ObjectAfter(t) ==
    IF threads[t].obj = 0 THEN positions'[threads[t].symbol]
    ELSE held'[threads[t].obj].pos

\* the last request of a sequence of requests to the exchange
LastCall(calls) == calls[Len(calls)]

\* another caller is inside a call
Overlapped == \E u \in Threads : threads[u].pc # "idle"

\* C1 (as claimed): over UpdateStopLoss and UpdatePosition calls, failed
\* exchange calls included, the committed CurrentStopLoss of a registered
\* position never moves unfavorably: it never decreases for a long position
\* and never increases for a short one.
C1_StopNeverMovesUnfavorably ==
    [][\A s \in Symbols :
         (s \in DOMAIN positions /\ s \in DOMAIN positions'
            /\ last'.op # "RegisterPosition")
         => NoWorse(positions[s], positions'[s])]_vars

\* C2 (as claimed): UpdateStopLoss rejects with a directional error every
\* proposal that is not strictly favorable, a proposal equal to the current
\* stop included.
C2_RejectsUnlessStrictlyFavorable ==
    [][\A t \in Threads :
         (/\ StepsIn(t, "UpdateStopLoss")
          /\ threads[t].pc = "read"
          /\ ~StrictlyFavorable(ObjectOf(t), threads[t].price))
         => /\ threads'[t].pc = "idle"
            /\ last'.err = "direction"]_vars

\* C3: when UpdateStopLoss rejects a proposal as unfavorable nothing changes:
\* the call that is rejected has looked the position up and read its stop
\* and nothing else, and neither statement appends to the history, sends a
\* request to the exchange or writes CurrentStopLoss or StopLossOrderID,
\* whatever other callers do in between.
C3_RejectionChangesNothing ==
    [][\A t \in Threads :
         /\ (Returns(t, "UpdateStopLoss") /\ last'.err = "direction")
            => /\ threads[t].pc = "read"
               /\ threads[t].calls = << >>
               /\ last'.calls = << >>
               /\ positions' = positions
               /\ held' = held
               /\ orders' = orders
               /\ nextOrderID' = nextOrderID
         /\ (Steps(t) /\ threads'[t].op = "UpdateStopLoss" /\ threads'[t].pc = "read")
            => /\ threads[t].pc = "idle"
               /\ positions' = positions
               /\ held' = held
               /\ orders' = orders
               /\ nextOrderID' = nextOrderID]_vars

\* a proposal has been rejected for a position that has an order and a
\* history, while another caller is inside an update of it
C3_Witness ==
    /\ last.op = "UpdateStopLoss"
    /\ last.err = "direction"
    /\ last.symbol \in DOMAIN positions
    /\ positions[last.symbol].StopLossOrderID # ""
    /\ positions[last.symbol].StopLossHistory # << >>
    /\ Overlapped

\* the order the position's StopLossOrderID names rests at the exchange
RestingStopOrders(pos, os) ==
    {o \in os : pos.StopLossOrderID # "" /\ o.OrderID = parseInt64(pos.StopLossOrderID)}

\* the stop orders that rest at the exchange for the symbol s
LiveStopOrders(s) == {o \in orders : o.Symbol = GetBinanceSymbolFor(s)}

\* C4 (as claimed): when an accepted UpdateStopLoss fails to place the
\* replacement order, the call returns an error, CurrentStopLoss keeps its
\* value, StopLossOrderID is empty and no stop order of the position rests
\* at the exchange, whatever the cancel did.
C4_NoRestingOrderAfterFailedPlace ==
    [][\A t \in Threads :
         (Returns(t, "UpdateStopLoss") /\ threads[t].pc = "create")
         => /\ last'.err = "place"
            /\ ObjectAfter(t).CurrentStopLoss = ObjectOf(t).CurrentStopLoss
            /\ ObjectAfter(t).StopLossOrderID = ""
            /\ RestingStopOrders(ObjectOf(t), orders') = {}]_vars

\* C5 (as claimed): when UpdateStopLoss accepts a proposal and the
\* replacement order is placed, the call returns no error, and when it
\* returns CurrentStopLoss is the proposal, StopLossOrderID is the ID of the
\* order the call placed and the entry the call added to the history records
\* {old = the stop the proposal replaces, new = the proposal}.
C5_AcceptedUpdateCommits ==
    [][\A t \in Threads :
         (Returns(t, "UpdateStopLoss") /\ threads[t].pc = "commit")
         => /\ last'.err = ""
            /\ LastCall(last'.calls).call = "place"
            /\ LastCall(last'.calls).ok
            /\ ObjectAfter(t).CurrentStopLoss = threads[t].price
            /\ ObjectAfter(t).StopLossOrderID = FormatInt(LastCall(last'.calls).OrderID)
            /\ \E i \in DOMAIN ObjectAfter(t).StopLossHistory :
                 /\ ObjectAfter(t).StopLossHistory[i].OldStop = ObjectOf(t).CurrentStopLoss
                 /\ ObjectAfter(t).StopLossHistory[i].NewStop = threads[t].price]_vars

\* C6 (as claimed): UpdatePosition on a registered position sends a market
\* close exactly when the tick price it was called with breaches the stop
\* (long: price <= stop, short: price >= stop); the close is for the whole
\* quantity, and when it succeeds the position is out of the registry when
\* the call returns.
C6_CloseExactlyOnBreach ==
    [][\A t \in Threads :
         Returns(t, "UpdatePosition")
         => /\ (CallsOf(last', "close") # {})
                 <=> Breaches(ObjectOf(t), threads[t].price)
            /\ \A i \in DOMAIN last'.calls :
                 /\ last'.calls[i].call = "close"
                 /\ i = 1
                 /\ last'.calls[i].Quantity = ObjectOf(t).Quantity
                 /\ last'.calls[i].ok => threads[t].symbol \notin DOMAIN positions']_vars

\* C7 (as claimed): a triggered position is not dropped: when the market
\* close fails the call returns an error and the position stays registered,
\* and every later tick on the registered position whose price breaches the
\* stop sends the close again and, if the exchange accepts it, removes the
\* position.
C7_FailedCloseKeepsPositionAndRetries ==
    [][\A t \in Threads :
         Returns(t, "UpdatePosition")
         => /\ (\E i \in CallsOf(last', "close") : ~last'.calls[i].ok)
               => last'.err = "close"
            /\ (/\ last.op = "UpdatePosition"
                /\ last.err = "close"
                /\ threads[t].obj = 0
                /\ Breaches(ObjectOf(t), threads[t].price))
               => /\ CallsOf(last', "close") # {}
                  /\ last'.err = "" => threads[t].symbol \notin DOMAIN positions']_vars

\* the stop of pos is not on the wrong side of its take-profit floor
WithinFloor(pos) ==
    LET floor == GetMinimumStopLoss(pos)
    IN floor[2] =>
         IF pos.Side = "long" THEN FCmp(Float64Of[pos.CurrentStopLoss], floor[1]) >= 0
         ELSE FCmp(Float64Of[pos.CurrentStopLoss], floor[1]) <= 0

\* C8 (as claimed): once a rung has executed no stop beyond the take-profit
\* floor is applied, so that from then on the CurrentStopLoss of the position
\* is >= the floor for a long position and <= the floor for a short one in
\* every state.
C8_StopNeverBeyondFloor ==
    \A s \in DOMAIN positions : WithinFloor(positions[s])

\* C9 (as claimed): a favorable proposal is forwarded to the exchange only if
\* the change reaches the update threshold of the symbol: for a favorable
\* proposal below the threshold the call sends no request to the exchange
\* and writes neither CurrentStopLoss nor StopLossOrderID.
C9_SubThresholdNotForwarded ==
    [][\A t \in Threads :
         (/\ StepsIn(t, "UpdateStopLoss")
          /\ threads[t].pc \in {"cancel", "clear", "create", "write", "commit"}
          /\ IF ObjectOf(t).Side = "long" THEN threads[t].price > threads[t].oldStop
             ELSE threads[t].price < threads[t].oldStop)
         => ShouldUpdate(Spelling[threads[t].symbol], Float64(threads[t].oldStop),
                         Float64(threads[t].price))]_vars

\* the rungs of a position's ladder, and those marked executed
LevelsOf(pos) ==
    IF pos.TakeProfitConfig = << >> THEN << >> ELSE pos.TakeProfitConfig[1].Levels

ExecutedLevels(pos) == {i \in DOMAIN LevelsOf(pos) : LevelsOf(pos)[i].Executed}

\* the ladders there are: those of the positions and those that have been
\* replaced while a call ranges over them, each with its position
Ladders ==
    {<<positions[s], positions[s].TakeProfitConfig>> : s \in DOMAIN positions}
      \cup {<<Object(threads[t].symbol, threads[t].obj), ladders[threads[t].ladder]>> :
               t \in {u \in Threads : Climbs(threads, u) /\ threads[u].ladder # 0}}

\* C10: one call of MonitorAndExecute executes at most one rung, also when
\* the price has reached the targets of several unexecuted rungs and also
\* when other callers evaluate the ladder at the same time: the count it
\* returns is 0 or 1, it has sent at most one partial close, and it has
\* marked a rung exactly when it returns 1.
C10_AtMostOneRungPerCall ==
    /\ [](last.op = "MonitorAndExecute"
            => /\ last.count \in {0, 1}
               /\ Len(last.calls) <= 1
               /\ \A i \in DOMAIN last.calls : last.calls[i].call = "trade"
               /\ last.count = Cardinality({i \in DOMAIN last.calls : last.calls[i].ok}))
    /\ [][\A t \in Threads :
            (StepsIn(t, "MonitorAndExecute") /\ threads[t].pc = "mark")
            => /\ threads[t].count = 0
               /\ Len(threads[t].calls) = 1]_vars
    /\ [][\A t \in Threads :
            (StepsIn(t, "MonitorAndExecute") /\ threads[t].pc = "trade")
            => threads[t].calls = << >>]_vars

\* a call has returned 1 at a price that has reached the target of a rung
\* above the one it executed, which is still unexecuted
C10_Witness ==
    /\ last.op = "MonitorAndExecute"
    /\ last.count = 1
    /\ last.level = 1
    /\ last.symbol \in DOMAIN positions
    /\ ExecutedLevels(positions[last.symbol]) = {1}
    /\ LET levels == LevelsOf(positions[last.symbol])
       IN /\ levels[2].TargetPrice # levels[1].TargetPrice
          /\ TargetReached(positions[last.symbol].Side, last.price, levels[3].TargetPrice)

\* C11: rungs execute in ascending level order: in every reachable state the
\* executed rungs of a ladder are a prefix 1..k of it, whatever prices
\* MonitorAndExecute was called with, whichever partial closes failed and
\* however the calls overlapped.
C11_ExecutedRungsArePrefix ==
    \A l \in Ladders :
      \E k \in 0..Len(LevelsOf([l[1] EXCEPT !.TakeProfitConfig = l[2]])) :
        ExecutedLevels([l[1] EXCEPT !.TakeProfitConfig = l[2]]) = 1..k

\* the second rung has been executed after the first at a price that has not
\* reached the third
C11_Witness ==
    /\ last.op = "MonitorAndExecute"
    /\ last.count = 1
    /\ last.level = 2
    /\ last.symbol \in DOMAIN positions
    /\ ExecutedLevels(positions[last.symbol]) = {1, 2}
    /\ ~TargetReached(positions[last.symbol].Side, last.price,
                      LevelsOf(positions[last.symbol])[3].TargetPrice)

\* C12 (as claimed): no rung executes twice: a partial close that succeeds is
\* for a rung that no earlier partial close has executed, also when calls of
\* MonitorAndExecute on the position overlap in time.
C12_NoRungClosedTwice ==
    [][\A t \in Threads :
         (threads[t].pc = "trade" /\ threads'[t].pc = "mark")
         => ~LadderOf(t)[1].Levels[threads[t].level].Executed]_vars

\* C13 (as claimed): the quantity a rung closes is the rung's percentage of
\* the quantity the position had when its ladder was initialized, not of the
\* quantity left after earlier rungs: 30%, 30% and 40% of the original size.
C13_ClosesShareOfOriginalQuantity ==
    [][\A t \in Threads :
         (StepsIn(t, "MonitorAndExecute") /\ threads[t].pc = "trade")
         => \E q \in Quantities :
              threads[t].closeQuantity * 100
                = q * LadderOf(t)[1].Levels[threads[t].level].Percentage]_vars

\* C14 (as claimed): once every rung of the ladder has executed the remaining
\* quantity of the position is zero.
C14_NothingLeftAfterLastRung ==
    \A s \in DOMAIN positions :
      (LevelsOf(positions[s]) # << >>
         /\ ExecutedLevels(positions[s]) = DOMAIN LevelsOf(positions[s]))
      => positions[s].Quantity = 0

\* the ladders that have been replaced are as they were, or gone with the
\* call that ranged over them
LaddersKept == \A k \in Slots : ladders'[k] \in {ladders[k], NoObject}

\* C15: when the partial close of a rung fails, MonitorAndExecute returns an
\* error and 0, having sent that one order only, and records nothing: up to
\* and with the refusal the call has written nothing to the position or to a
\* ladder, a rung is marked only by a call whose order the exchange filled,
\* and no later rung is attempted; and an evaluation after the failed one,
\* at a price that reaches the target of the rung, takes up the same rung
\* when it is still the lowest unexecuted one.
C15_FailedCloseRecordsNothingAndRetries ==
    [][\A t \in Threads :
         StepsIn(t, "MonitorAndExecute") =>
           /\ threads[t].pc \in {"idle", "levels", "share", "trade"}
              => \/ threads'[t].pc = "mark"
                 \/ /\ positions' = positions
                    /\ held' = held
                    /\ LaddersKept
           /\ (threads[t].pc = "trade" /\ ~LastCall(IF threads'[t].pc = "idle"
                                                     THEN last'.calls
                                                     ELSE threads'[t].calls).ok)
              => /\ threads'[t].pc = "idle"
                 /\ last'.err = "trade"
                 /\ last'.count = 0
                 /\ Len(last'.calls) = 1
                 /\ last'.level = threads[t].level
                 /\ positions' = positions
                 /\ held' = held
                 /\ LaddersKept
           /\ threads[t].pc = "mark"
              => /\ Len(threads[t].calls) = 1
                 /\ threads[t].calls[1].ok
           /\ (/\ threads[t].pc = "levels"
               /\ last.op = "MonitorAndExecute"
               /\ last.err = "trade"
               /\ last.symbol = threads[t].symbol
               /\ last.obj = threads[t].obj
               /\ LET levels == LadderOf(t)[1].Levels
                  IN /\ ~levels[last.level].Executed
                     /\ \A j \in 1..(last.level - 1) : levels[j].Executed
                     /\ TargetReached(ObjectOf(t).Side, threads[t].price,
                                      levels[last.level].TargetPrice))
              => /\ threads'[t].pc = "share"
                 /\ threads'[t].level = last.level]_vars

\* the partial close of the second rung has failed: the rung is unexecuted,
\* the quantity is what the first rung left, and the next evaluation at the
\* same price would take the second rung up again
C15_Witness ==
    /\ last.op = "MonitorAndExecute"
    /\ last.err = "trade"
    /\ last.level = 2
    /\ last.symbol \in DOMAIN positions
    /\ ExecutedLevels(positions[last.symbol]) = {1}
    /\ ScanLevels(positions[last.symbol], last.price) = 2
    /\ positions[last.symbol].Quantity = 7000000

\* C16: GetMinimumStopLoss answers "no floor" when the position has no ladder
\* or no rung has executed, and otherwise the NewStopLoss of the highest
\* executed rung: the entry price after rung 1, the target of rung 1 after
\* rung 2, the target of rung 2 after rung 3.
C16_FloorIsStopOfHighestExecutedRung ==
    \A s \in DOMAIN positions :
      LET pos    == positions[s]
          levels == LevelsOf(pos)
          done   == ExecutedLevels(pos)
          floor  == GetMinimumStopLoss(pos)
      IN IF done = {}
         THEN floor = <<FZero, FALSE>>
         ELSE \E k \in done :
                /\ \A j \in done : j <= k
                /\ floor = <<levels[k].NewStopLoss, TRUE>>
                /\ floor[1] = IF k = 1 THEN Float64Of[pos.EntryPrice]
                              ELSE levels[k - 1].TargetPrice

C16_Witness ==
    \E s \in DOMAIN positions :
      /\ ExecutedLevels(positions[s]) = {1, 2, 3}
      /\ GetMinimumStopLoss(positions[s])[2]
      /\ GetMinimumStopLoss(positions[s])[1] # Float64Of[positions[s].EntryPrice]

\* C17 (as claimed): UpdateStopLoss and UpdatePosition for a symbol that is
\* not registered are no-ops: no error is returned, nothing is sent to the
\* exchange and no state changes.
C17_UnknownSymbolIsNoOp ==
    [][(/\ last' # last
        /\ last'.op \in {"UpdateStopLoss", "UpdatePosition"}
        /\ threads' = threads
        /\ last'.symbol \notin DOMAIN positions)
       => /\ last'.err = ""
          /\ last'.calls = << >>
          /\ positions' = positions
          /\ orders' = orders
          /\ nextOrderID' = nextOrderID]_vars

\* the position caller t works on, after the step, when it is still there
Kept(t) ==
    IF threads[t].obj = 0 THEN threads[t].symbol \in DOMAIN positions'
    ELSE held'[threads[t].obj] # NoObject

\* C18: PlaceInitialStopLoss, on a position that is registered or one the
\* caller holds outside the registry, sends one order at the position's
\* InitialStopLoss; when the order is accepted the call writes the new
\* order's ID to StopLossOrderID and returns no error; when it is refused
\* the call returns an error and has written nothing, so that a position
\* without an order stays without one; and no statement of the call
\* registers or removes a position.
C18_PlaceInitialSetsOrderIDOrFails ==
    [][\A t \in Threads :
         StepsIn(t, "PlaceInitialStopLoss") =>
           /\ DOMAIN positions' = DOMAIN positions
           /\ threads[t].pc = "idle"
              => /\ threads'[t].pc = "create"
                 /\ threads'[t].price =
                      Object(threads'[t].symbol, threads'[t].obj).InitialStopLoss
                 /\ positions' = positions
                 /\ held' = held
                 /\ orders' = orders
           /\ threads[t].pc = "create"
              => /\ threads[t].calls = << >>
                 /\ positions' = positions
                 /\ IF threads'[t].pc = "idle"
                    THEN /\ last'.err = "place"
                         /\ Len(last'.calls) = 1
                         /\ ~last'.calls[1].ok
                         /\ last'.calls[1].Price = ObjectOf(t).InitialStopLoss
                         /\ orders' = orders
                         /\ Kept(t) => ObjectAfter(t) = ObjectOf(t)
                    ELSE /\ threads'[t].pc = "write"
                         /\ held' = held
                         /\ \E ord \in orders' \ orders :
                              /\ orders' = orders \cup {ord}
                              /\ ord.OrderID = threads'[t].placedID
                              /\ ord.StopPrice = ObjectOf(t).InitialStopLoss
           /\ threads[t].pc = "write"
              => /\ threads'[t].pc = "idle"
                 /\ last'.err = ""
                 /\ Len(last'.calls) = 1
                 /\ last'.calls[1].ok
                 /\ last'.calls[1].OrderID = threads[t].placedID
                 /\ orders' = orders
                 /\ Kept(t) => ObjectAfter(t) = [ObjectOf(t) EXCEPT
                                  !.StopLossOrderID = FormatInt(threads[t].placedID)]]_vars

\* an order was placed for a short position the caller holds outside the
\* registry, while another caller was inside a call
C18_Witness ==
    /\ last.op = "PlaceInitialStopLoss"
    /\ last.err = ""
    /\ last.obj # 0
    /\ held[last.obj] # NoObject
    /\ held[last.obj].pos.Side = "short"
    /\ held[last.obj].pos.StopLossOrderID = FormatInt(last.calls[1].OrderID)
    /\ held[last.obj].pos.InitialStopLoss # held[last.obj].pos.EntryPrice
    /\ last.symbol \notin DOMAIN positions
    /\ Overlapped

\* the float64 sum or difference the claim C19 states for rung k of a
\* position of the side entered at entryPrice with its stop at initialStopLoss
TargetsClaimed ==
    [side \in Sides, entryPrice \in AllPrices, initialStopLoss \in AllPrices |->
       LET entry == Float64Of[entryPrice]
           stop  == Float64Of[initialStopLoss]
           risk  == IF entryPrice >= initialStopLoss THEN FSub(entry, stop)
                    ELSE FSub(stop, entry)
       IN [k \in 1..3 |->
             IF side = "long" THEN FAdd(entry, FMul(risk, FOfDecimal(k, 1)))
             ELSE FSub(entry, FMul(risk, FOfDecimal(k, 1)))]]

\* C19: the ladder InitializeTakeProfitLevels stores has, for rungs 1, 2, 3,
\* TargetPrice = EntryPrice + riskDistance * level for a long position and
\* EntryPrice - riskDistance * level for a short one, with riskDistance =
\* |EntryPrice - InitialStopLoss|, the difference, the product and the sum
\* each a float64 operation; NewStopLoss is EntryPrice for rung 1 and the
\* TargetPrice of rung k-1 for rung k >= 2; and MonitorAndExecute leaves
\* these values as they are in every later state, on the ladder of the
\* position and on one that has been replaced.
C19_TargetsFollowRiskDistance ==
    \A l \in Ladders :
      LET pos    == l[1]
          levels == LevelsOf([pos EXCEPT !.TakeProfitConfig = l[2]])
          claimed == TargetsClaimed[pos.Side, pos.EntryPrice, pos.InitialStopLoss]
      IN levels # << >> =>
           /\ Len(levels) = 3
           /\ \A k \in 1..3 :
                /\ levels[k].Level = k
                /\ levels[k].RiskRewardRatio = k
                /\ levels[k].TargetPrice = claimed[k]
                /\ levels[k].NewStopLoss = IF k = 1 THEN Float64Of[pos.EntryPrice]
                                           ELSE levels[k - 1].TargetPrice

\* two rungs of a short position entered at 1002 with its stop at 1003 have
\* been executed
C19_Witness ==
    /\ last.op = "MonitorAndExecute"
    /\ last.count = 1
    /\ last.symbol \in DOMAIN positions
    /\ positions[last.symbol].Side = "short"
    /\ positions[last.symbol].EntryPrice = 1002
    /\ positions[last.symbol].InitialStopLoss = 1003
    /\ ExecutedLevels(positions[last.symbol]) = {1, 2}

\* C20 (as claimed): on every position with a ladder the rung targets are
\* strictly ordered by level, increasing for a long position and decreasing
\* for a short one, whatever entry price and initial stop it was registered
\* with.
C20_TargetsStrictlyOrdered ==
    \A s \in DOMAIN positions :
      LET pos    == positions[s]
          levels == LevelsOf(pos)
      IN \A j, k \in DOMAIN levels :
           j < k => IF pos.Side = "long"
                    THEN FCmp(levels[j].TargetPrice, levels[k].TargetPrice) < 0
                    ELSE FCmp(levels[j].TargetPrice, levels[k].TargetPrice) > 0

\* C21: RegisterPosition stores the position under its symbol with
\* HighestPrice and CurrentPrice set to EntryPrice, whatever the caller left
\* in them, and replaces a position already registered for the symbol without
\* merging: GetPosition(symbol) then returns exactly the position handed
\* over, which carries nothing of the one replaced, and the positions of
\* other symbols are unchanged.
C21_RegisterSeedsAndReplaces ==
    [][last'.op = "RegisterPosition"
       => LET s   == last'.symbol
              new == [ positions   |-> positions', orders |-> orders',
                       nextOrderID |-> nextOrderID', fills |-> fills',
                       calls |-> << >>, err |-> "", count |-> 0, level |-> 0 ]
          IN /\ DOMAIN positions' = DOMAIN positions \cup {s}
             /\ \A o \in DOMAIN positions \ {s} : positions'[o] = positions[o]
             /\ Len(GetPosition(new, s)) = 1
             /\ GetPosition(new, s)[1].HighestPrice = last'.price
             /\ GetPosition(new, s)[1].CurrentPrice = last'.price
             /\ \E side \in Sides, risk \in RiskDistances, quantity \in Quantities :
                  GetPosition(new, s)[1]
                    = NewPosition(s, side, last'.price,
                                  IF side = "long" THEN last'.price - risk
                                  ELSE last'.price + risk,
                                  quantity)]_vars

C21_Witness ==
    /\ last.op = "RegisterPosition"
    /\ last.symbol = "BTCUSDT"
    /\ DOMAIN positions = {"BTCUSDT", "ETHUSDT"}
    /\ positions["BTCUSDT"].Side # positions["ETHUSDT"].Side
    /\ positions["BTCUSDT"].Side = "short"

\* the elements of a sequence
Range(seq) == {seq[i] : i \in DOMAIN seq}

\* C22: GetAllPositions returns a snapshot: the sequence holds exactly the
\* positions registered at the moment of the call, each once, and a
\* RegisterPosition or RemovePosition that happens while a caller holds or
\* ranges over a sequence returned earlier adds, removes or replaces none of
\* its elements.
C22_GetAllPositionsIsSnapshot ==
    [][\A t \in Threads :
         /\ (threads[t].pc = "idle" /\ threads'[t].pc = "iterating")
            => /\ Range(threads'[t].snapshot) = {positions[s] : s \in DOMAIN positions}
               /\ Len(threads'[t].snapshot) = Cardinality(DOMAIN positions)
               /\ \A s \in DOMAIN positions :
                    \E i \in DOMAIN threads'[t].snapshot :
                      threads'[t].snapshot[i].Symbol = s
         /\ (threads[t].pc = "iterating" /\ positions' # positions)
            => threads'[t].snapshot = threads[t].snapshot]_vars

C22_Witness ==
    /\ last.op = "RegisterPosition"
    /\ \E t \in Threads :
         /\ threads[t].pc = "iterating"
         /\ Len(threads[t].snapshot) = 2
         /\ threads[t].snapshot[1].Symbol = last.symbol
         /\ threads[t].snapshot[1] # positions[last.symbol]
         /\ threads[t].snapshot[2].Symbol \notin DOMAIN positions

\* C23: IsValidUpdate is true for a long position iff the new stop is above
\* the old one and for a short position iff it is below; for equal stops it
\* is false on both sides.
C23_ValidUpdateIffStrictlyFavorable ==
    calc.fn = "IsValidUpdate"
    => calc.ok = (IF calc.side = "long" THEN calc.b > calc.a ELSE calc.b < calc.a)

C23_Witness ==
    /\ calc.fn = "IsValidUpdate"
    /\ calc.a = calc.b
    /\ ~calc.ok

\* |newStop - oldStop| / |oldStop| * 100 >= threshold, in exact arithmetic
\* (threshold in tenths of a percent)
ExactChangeReaches(oldStop, newStop, threshold) ==
    BigCmp(BigMulSmall(BigOf(Abs(newStop - oldStop)), 1000),
           BigMulSmall(BigOf(Abs(oldStop)), threshold)) >= 0

\* C24 (as claimed): for oldStop # 0, ShouldUpdate is true iff
\* |newStop - oldStop| / |oldStop| * 100 >= the update threshold of the
\* symbol; a change of exactly the threshold is accepted and any smaller
\* change is not.
C24_ShouldUpdateIffChangeReachesThreshold ==
    (calc.fn = "ShouldUpdate" /\ calc.a # 0)
    => calc.ok = ExactChangeReaches(calc.a, calc.b,
                                    GetConfig(calc.symbol).UpdateThreshold)

\* the stop distance in percent of the reference price lies in [min, max],
\* in exact arithmetic (min and max in tenths of a percent)
ExactDistanceWithin(side, ref, stop, min, max) ==
    LET distance == IF side = "long" THEN ref - stop ELSE stop - ref
    IN /\ distance >= 0
       /\ BigCmp(BigMulSmall(BigOf(distance), 1000),
                 BigMulSmall(BigOf(ref), min)) >= 0
       /\ BigCmp(BigMulSmall(BigOf(distance), 1000),
                 BigMulSmall(BigOf(ref), max)) <= 0

\* C25 (as claimed): ValidateStopDistance is true iff the stop distance,
\* (ref - stop)/ref*100 for a long and (stop - ref)/ref*100 for a short, lies
\* in [MinStopDistance, MaxStopDistance] of the symbol, both bounds
\* inclusive; a stop on the wrong side of the reference price is invalid.
C25_ValidIffDistanceWithinRange ==
    (calc.fn = "ValidateStopDistance" /\ calc.a > 0)
    => calc.ok = ExactDistanceWithin(calc.side, calc.a, calc.b,
                                     GetConfig(calc.symbol).MinStopDistance,
                                     GetConfig(calc.symbol).MaxStopDistance)

\* the double x is the decimal n / 1000 up to the rounding of the arithmetic
\* (less than a ten-thousandth away, a hundredth of the price tick)
IsAbout(x, n) ==
    FCmp(FAbs(FSub(x, FOfDecimal(n, 1000))), FOfDecimal(1, 10000)) < 0

\* C26: CalculateInitialStop returns entryPrice - multiplier*atr for a long
\* and entryPrice + multiplier*atr for a short, with the initial multiplier
\* of the symbol (entry 50000, atr 500, multiplier 2.5: exactly 48750 long
\* and 51250 short); with atr = 0 the stop is the entry price.
C26_InitialStopIsEntryMinusOrPlusDistance ==
    calc.fn = "CalculateInitialStop"
    => LET m     == GetConfig(calc.symbol).InitialATRMultiplier
           exact == IF calc.side = "long" THEN 10 * calc.a - m * calc.atr
                    ELSE 10 * calc.a + m * calc.atr
       IN /\ IsAbout(calc.price, exact)
          /\ (calc.a = 5000000 /\ calc.atr = 50000)
             => FIsDecimal(calc.price,
                           IF calc.side = "long" THEN 4875000 ELSE 5125000, 100)
          /\ calc.atr = 0 => calc.price = Float64(calc.a)

C26_Witness ==
    /\ calc.fn = "CalculateInitialStop"
    /\ calc.side = "short"
    /\ calc.a = 5000000
    /\ calc.atr = 50000
    /\ FIsDecimal(calc.price, 5125000, 100)

\* C27: CalculateTrailingStop returns extremePrice - multiplier*atr for a
\* long and extremePrice + multiplier*atr for a short, with the trailing
\* multiplier of the symbol (52000, atr 500, 2.5: exactly 50750 long; 48000:
\* exactly 49250 short).
C27_TrailingStopIsExtremeMinusOrPlusDistance ==
    calc.fn = "CalculateTrailingStop"
    => LET m     == GetConfig(calc.symbol).TrailingATRMultiplier
           exact == IF calc.side = "long" THEN 10 * calc.b - m * calc.atr
                    ELSE 10 * calc.b + m * calc.atr
       IN /\ IsAbout(calc.price, exact)
          /\ (calc.b = 5200000 /\ calc.atr = 50000 /\ calc.side = "long")
             => FIsDecimal(calc.price, 5075000, 100)
          /\ (calc.b = 4800000 /\ calc.atr = 50000 /\ calc.side = "short")
             => FIsDecimal(calc.price, 4925000, 100)

C27_Witness ==
    /\ calc.fn = "CalculateTrailingStop"
    /\ calc.side = "short"
    /\ calc.b = 4800000
    /\ calc.atr = 50000
    /\ FIsDecimal(calc.price, 4925000, 100)

\* C28: for a long position and a fixed ATR, when the highest price rises
\* from h1 to h2 > h1 the move of the stop from the trailing stop at h1 to
\* the one at h2 is a valid update and the move back is not; and the first
\* trailing stop, computed from a highest price above the entry, is a valid
\* update of the initial stop (the two multipliers being equal).
C28_TrailingStopFollowsTheHigh ==
    (calc.fn = "TrailingStopScenario" /\ calc.side = "long")
    => /\ calc.c > calc.b => (calc.scenario.nextValid /\ ~calc.scenario.backValid)
       /\ (/\ calc.b > calc.a
           /\ GetConfig(calc.symbol).InitialATRMultiplier
                = GetConfig(calc.symbol).TrailingATRMultiplier)
          => calc.scenario.firstValid

C28_Witness ==
    /\ calc.fn = "TrailingStopScenario"
    /\ calc.side = "long"
    /\ calc.a = 5000000 /\ calc.atr = 50000
    /\ calc.b = 5200000 /\ calc.c = 5300000
    /\ FIsDecimal(calc.scenario.initialStop, 4875000, 100)
    /\ FIsDecimal(calc.scenario.trailingStop1, 5075000, 100)
    /\ FIsDecimal(calc.scenario.trailingStop2, 5175000, 100)
    /\ calc.scenario.firstValid
    /\ calc.scenario.nextValid
    /\ ~calc.scenario.backValid

\* C29: GetConfig looks the symbol up in normalized form: BTC/USDT, btcusdt
\* and BTCUSDT resolve to the same parameter set, the one of BTCUSDT, and a
\* symbol without an entry resolves to the DEFAULT parameter set.
C29_ConfigByNormalizedSymbol ==
    calc.fn = "GetConfig"
    => /\ calc.symbol \in { << "B", "T", "C", "/", "U", "S", "D", "T" >>,
                            << "b", "t", "c", "u", "s", "d", "t" >>,
                            << "B", "T", "C", "U", "S", "D", "T" >> }
          => calc.config = getDefaultConfigs["BTCUSDT"]
       /\ calc.symbol = << "S", "O", "L", "U", "S", "D", "T" >>
          => calc.config = getDefaultConfigs["SOLUSDT"]
       /\ calc.symbol = << "X", "Y", "Z", "U", "S", "D", "T" >>
          => calc.config = getDefaultConfigs["DEFAULT"]

C29_Witness ==
    /\ calc.fn = "GetConfig"
    /\ calc.symbol = << "b", "t", "c", "u", "s", "d", "t" >>
    /\ calc.config.MaxStopDistance = 60

\* thread t is inside an UpdateStopLoss call on the position of symbol s,
\* past the lookup
InUpdate(t, s) ==
    /\ threads[t].pc # "idle"
    /\ threads[t].op = "UpdateStopLoss"
    /\ threads[t].symbol = s

\* C30 (as claimed): UpdateStopLoss calls on one position exclude each
\* other: no two callers are inside the sequence at once, so a call cancels
\* the order it saw when it read the position, and commits over the stop it
\* checked its proposal against.
C30_UpdatesOfOnePositionExcludeEachOther ==
    [][/\ \A t1, t2 \in Threads, s \in Symbols :
            (InUpdate(t1, s)' /\ InUpdate(t2, s)') => t1 = t2
       /\ \A t \in Threads :
            /\ (threads[t].pc = "cancel" /\ threads'[t].pc # "cancel")
               => ObjectOf(t).StopLossOrderID = FormatInt(threads[t].id)
            /\ (threads[t].pc = "commit" /\ threads'[t].pc = "idle")
               => ObjectOf(t).CurrentStopLoss = threads[t].oldStop]_vars

\* C31 (as claimed): at most one stop order rests at the exchange for a
\* registered position at any time, whatever cancels and places failed, and
\* when one rests its ID is the position's StopLossOrderID.
C31_AtMostOneRestingStopOrder ==
    \A s \in DOMAIN positions :
      /\ Cardinality(LiveStopOrders(s)) <= 1
      /\ \A o \in LiveStopOrders(s) :
           positions[s].StopLossOrderID = FormatInt(o.OrderID)

\* C32 (as claimed): the close of a triggered position and its removal from
\* the registry are one atomic step, so that of the UpdatePosition calls that
\* run at once on one position at most one sends a successful market close:
\* a close that succeeds finds the position (the only one ever opened under
\* the symbol) still in the registry.
C32_AtMostOneSuccessfulClose ==
    [][\A t \in Threads :
         (threads[t].pc = "close" /\ threads'[t].pc = "remove")
         => threads[t].symbol \in DOMAIN positions]_vars

\* C33: a failed cancel of the old order does not abort UpdateStopLoss: the
\* call goes on to read the quantity and to send the replacement order, and
\* its result follows the placement alone: no error and the proposal
\* committed if the order was placed, an error and nothing written if it was
\* not.
C33_CancelFailureDoesNotAbort ==
    [][\A t \in Threads :
         StepsIn(t, "UpdateStopLoss") =>
           /\ (threads[t].pc = "cancel" /\ threads'[t].pc # "clear")
              => /\ threads'[t].pc = "quantity"
                 /\ ~LastCall(threads'[t].calls).ok
                 /\ positions' = positions
           /\ threads[t].pc = "quantity" => threads'[t].pc = "create"
           /\ (/\ threads'[t].pc = "idle"
               /\ \E i \in CallsOf(last', "cancel") : ~last'.calls[i].ok)
              => /\ Len(last'.calls) = 2
                 /\ last'.calls[1].call = "cancel"
                 /\ last'.calls[2].call = "place"
                 /\ last'.calls[2].Price = threads[t].price
                 /\ IF last'.calls[2].ok
                    THEN /\ threads[t].pc = "commit"
                         /\ last'.err = ""
                         /\ ObjectAfter(t).CurrentStopLoss = threads[t].price
                    ELSE /\ threads[t].pc = "create"
                         /\ last'.err = "place"
                         /\ positions' = positions]_vars

\* an update whose cancel failed has placed its order and committed its
\* stop, and two orders rest at the exchange
C33_Witness ==
    /\ last.op = "UpdateStopLoss"
    /\ last.err = ""
    /\ Len(last.calls) = 2
    /\ last.calls[1].call = "cancel" /\ ~last.calls[1].ok
    /\ last.calls[2].call = "place" /\ last.calls[2].ok
    /\ last.symbol \in DOMAIN positions
    /\ positions[last.symbol].CurrentStopLoss = last.price
    /\ Cardinality(LiveStopOrders(last.symbol)) = 2

\* the new values of the history entries move only in the favorable direction
MonotonicHistory(pos) ==
    \A i, j \in DOMAIN pos.StopLossHistory :
      i < j => IF pos.Side = "long"
               THEN pos.StopLossHistory[i].NewStop <= pos.StopLossHistory[j].NewStop
               ELSE pos.StopLossHistory[i].NewStop >= pos.StopLossHistory[j].NewStop

\* C34 (as claimed): the stop-loss history of a position is append-only,
\* entries being added at the end only, and the new values of its entries
\* move only in the favorable direction, non-decreasing for a long and
\* non-increasing for a short, also when the placement of an accepted update
\* failed and a later update succeeds.
C34_HistoryAppendOnlyAndMonotonic ==
    [][\A s \in Symbols :
         (s \in DOMAIN positions /\ s \in DOMAIN positions'
            /\ last'.op # "RegisterPosition")
         => /\ Len(positions'[s].StopLossHistory) >= Len(positions[s].StopLossHistory)
            /\ SubSeq(positions'[s].StopLossHistory, 1,
                      Len(positions[s].StopLossHistory))
                 = positions[s].StopLossHistory
            /\ MonotonicHistory(positions'[s])]_vars

\* the loop has finished the body of its range loop for one position: the
\* price query has failed, or UpdatePosition has returned
MonitorVisited ==
    /\ monitor.pc \in {"scan", "call", "update"}
    /\ monitor'.i = monitor.i + 1

\* C35: within one tick a failed price query or a failed update or close for
\* one symbol does not end the scan: after every visit, failed or not, the
\* loop goes on to the next position of the snapshot, so that a finished scan
\* has processed every position of it; and the loop returns only once the
\* context is cancelled, so that it keeps running for later ticks
C35_FailureDoesNotEndTheScan ==
    /\ [][MonitorVisited =>
            /\ monitor'.positions = monitor.positions
            /\ monitor'.queried = SubSeq(monitor.positions, 1, monitor.i)
            /\ (monitor.i < Len(monitor.positions) => monitor'.pc = "scan")
            /\ (monitor'.pc = "select" => monitor'.queried = monitor.positions)]_vars
    /\ [](monitor.pc = "done" => monitor.cancelled)

\* a tick with two positions whose first visit failed has visited both, and
\* the loop waits for the next tick
C35_Witness ==
    /\ monitor.pc = "select"
    /\ Len(monitor.positions) = 2
    /\ monitor.queried = monitor.positions
    /\ 1 \in monitor.failed
    /\ ~monitor.cancelled

\* the select takes a tick out of the channel of the ticker
TickTaken == monitor.tick /\ ~monitor'.tick

\* C36: the loop shuts down gracefully: once Stop has cancelled the context
\* the loop eventually returns, it returns only from its select (a tick being
\* processed runs to completion), and no tick is taken once the context is
\* cancelled
C36_GracefulShutdown ==
    /\ (monitor.cancelled ~> monitor.pc = "done")
    /\ [][monitor'.pc = "done" => monitor.pc \in {"select", "done"}]_vars
    /\ [][monitor.cancelled => ~TickTaken]_vars

\* C36, its first two parts: the loop eventually returns after Stop, and only
\* from its select
C36_ExitsAfterTheTickInFlight ==
    /\ (monitor.cancelled ~> monitor.pc = "done")
    /\ [][monitor'.pc = "done" => monitor.pc \in {"select", "done"}]_vars

\* C37: within one tick the take-profit ladder is evaluated for a position
\* before its stop is checked: a visit that calls UpdatePosition has called
\* MonitorAndExecute of the ladder before it
C37_LadderBeforeStop ==
    [][MonitorVisited =>
         \A j \in 1..Len(monitor'.ops) :
            monitor'.ops[j] = "UpdatePosition" =>
               \E k \in 1..(j - 1) : monitor'.ops[k] = "MonitorAndExecute"]_vars

\* thread t sends its market close to the exchange
SendsClose(t) == threads[t].pc = "close" /\ threads'[t].pc # "close"

\* C38: after RemovePosition(symbol) has returned no exchange action is taken
\* for that position: a caller that looked the position up before the removal
\* sends no market close for it once RemovePosition has returned
C38_NoExchangeActionAfterRemoval ==
    [][\A t \in Threads :
          SendsClose(t) =>
             ~(last.op = "RemovePosition" /\ last.symbol = threads[t].symbol)]_vars

\* C39: whenever the stop order a registered position names rests at the
\* exchange, the quantity of the order is the current quantity of the
\* position, also after a rung of the ladder has reduced pos.Quantity
C39_StopOrderCoversCurrentQuantity ==
    \A s \in DOMAIN positions :
      \A o \in LiveStopOrders(s) :
         positions[s].StopLossOrderID = FormatInt(o.OrderID)
            => o.Quantity = positions[s].Quantity

\* the floor GetMinimumStopLoss reports for the position of s before and
\* after a step
FloorOf(s) == GetMinimumStopLoss(positions[s])
FloorAfter(s) == GetMinimumStopLoss(positions'[s])

\* over the step a floor that was reported is still reported and has moved
\* favorably if at all, and a first floor reported is the entry price
FloorKept(s) ==
    /\ FloorOf(s)[2] =>
         /\ FloorAfter(s)[2]
         /\ IF positions[s].Side = "long"
            THEN FCmp(FloorAfter(s)[1], FloorOf(s)[1]) >= 0
            ELSE FCmp(FloorAfter(s)[1], FloorOf(s)[1]) <= 0
    /\ (~FloorOf(s)[2] /\ FloorAfter(s)[2]) =>
         FloorAfter(s)[1] = Float64Of[positions[s].EntryPrice]

\* C40 (as claimed): the take-profit floor only moves favorably: once
\* GetMinimumStopLoss reports a floor for a position it keeps reporting one,
\* at or above the previous one for a long position and at or below it for a
\* short one; the first floor reported is the entry price.
C40_FloorKeepsBeingReported ==
    [][\A s \in DOMAIN positions : s \in DOMAIN positions' => FloorKept(s)]_vars

====
